---------------------------- MODULE Spec2Model ----------------------------
(***************************************************************************)
(* Observability correlation core of the two services document-api and     *)
(* data-store: the correlation id ContextVar, ObservabilityMiddleware, the *)
(* add_process_time_header middleware, log_request_metrics, create_span,   *)
(* log_with_context and track_db_operation, driven by the four document    *)
(* routes.                                                                 *)
(*                                                                         *)
(* Scheduling: one asyncio event loop per service process.  Code between   *)
(* two awaits runs atomically, so an action is the code from one           *)
(* suspension point to the next.  The two services are two processes, each *)
(* with its own event loop and its own ContextVar: a run of the model is a *)
(* run of one of them, chosen at the start.                                *)
(*                                                                         *)
(* Every request runs in a task of its own (the "outer" task, which runs   *)
(* add_process_time_header, the middleware registered last and therefore   *)
(* outermost); call_next runs the rest of the stack                        *)
(* (ObservabilityMiddleware, the route handler) in a child task (the       *)
(* "inner" task) whose context is a copy of the outer task's context,      *)
(* taken when the child is started.                                        *)
(***************************************************************************)
EXTENDS Integers, Sequences, FiniteSets, TLC

\* Number of requests in flight at once in the modelled run.
NumReq == 2

Req == 1..NumReq

\* The four document routes: two of data-store, two of document-api.
Routes == {"ds_create", "ds_get", "api_upload", "api_retrieve"}

Services == {"data-store", "document-api"}

\* "service" label of the service that serves a route.
ServiceOf(rt) == IF rt \in {"ds_create", "ds_get"} THEN "data-store" ELSE "document-api"

MethodOf(rt) ==
    CASE rt = "ds_create" -> "POST"
      [] rt = "ds_get" -> "GET"
      [] rt = "api_upload" -> "PUT"
      [] rt = "api_retrieve" -> "GET"

PathOf(rt) ==
    CASE rt = "ds_create" -> "/clients/{client_id}/documents"
      [] rt = "ds_get" -> "/clients/{client_id}/documents/{document_id}"
      [] rt = "api_upload" -> "/clients/{client_id}/upload-document"
      [] rt = "api_retrieve" -> "/clients/{client_id}/documents/{document_id}"

\* Python dict literal {**a, **b}: the keys of b override those of a.
Merge(a, b) == b @@ a

-----------------------------------------------------------------------------
(* telemetry.py: the correlation id ContextVar *)

\* The ContextVar's default, the empty string.
EmptyId == <<>>

\* str(uuid.uuid4()): the n-th value drawn; distinct draws differ.
uuid4(n) == <<n>>

VARIABLES
    service,    \* the service whose process is modelled
    pc,         \* pc[r]: where request r is
    route,      \* route[r]: the route request r asked for
    ctx,        \* ctx[r][t]: the correlation_id ContextVar in task t of request r
    uuidCount,  \* how many uuid4 values were drawn
    scope,      \* scope[r]: the ASGI scope's "correlation_id" entry
    frame,      \* frame[r]: telemetry the code of request r emitted, spans it opened
    local,      \* local[r]: the handler's local variables across its awaits
    result,     \* result[r]: what the handler returned or raised
    response,   \* response[r]: the response the client of request r received
    caller,     \* caller[r]: the document-api request whose outbound call r is (0: a client's)
    calls,      \* calls[r]: the direct calls of the telemetry functions by the task of r
    asgi,       \* asgi[r]: the ASGI call ObservabilityMiddleware received and its messages
    documentmetadata, \* the rows of data-store's documentmetadata table, in order of insertion
    http,       \* http[r]: the parameters of request r, its outbound call and its reply
    health      \* health[r]: what the checks of health check r found, and the body it returned

vars == <<service, pc, route, ctx, uuidCount, scope, frame, local, result, response,
          caller, calls, asgi, documentmetadata, http, health>>


Tasks == {"outer", "inner"}
Task == Req \X Tasks

\* A read that ignores what was installed and yields the default.
get_correlation_id_default(cx, t) == EmptyId

\* get_correlation_id() run by task t: that task's value of the ContextVar.
get_correlation_id(cx, t) == cx[t]

\* A module-level variable in place of the ContextVar: one cell for all tasks.
set_correlation_id_shared_cell(cx, t, v) == [u \in DOMAIN cx |-> v]

\* set_correlation_id(v) run by task t: sets the ContextVar in t's context only.
set_correlation_id(cx, t, v) == [cx EXCEPT ![t] = v]

\* generate_correlation_id(): a fresh uuid4, n values having been drawn before.
generate_correlation_id(n) == uuid4(n + 1)

\* The execution environment of a piece of code: the contexts, the task that
\* runs it and the service it belongs to.
Env(cx, t, svc) == [cx |-> cx, task |-> t, svc |-> svc]

-----------------------------------------------------------------------------
(* Exceptions *)

NoExc == [type |-> "None", status |-> 0, msg |-> ""]

\* fastapi.HTTPException(status_code, detail)
HTTPException(status, detail) == [type |-> "HTTPException", status |-> status, msg |-> detail]

\* An error of a collaborator (the database session, the file system, h11).
Error(type, msg) == [type |-> type, status |-> 0, msg |-> msg]

\* The exception that leaves a with-block whose __exit__ returned `ret`.
Leaves(ret, exc) == IF ret THEN NoExc ELSE exc

-----------------------------------------------------------------------------
(* observability.py: logging *)

\* The severities of the logging module, lowest first.
LevelOrder == <<"debug", "info", "warning", "error", "critical">>

LevelNo(l) == CHOOSE i \in 1..Len(LevelOrder) : LevelOrder[i] = l

\* logging.basicConfig(level=logging.INFO): the level of the root logger, which
\* the module loggers inherit.
RootLevel == "info"

\* Logger.isEnabledFor: a record below the effective level is dropped.
isEnabledFor(l) == LevelNo(l) >= LevelNo(RootLevel)

\* The service-identity entries a service adds to labels, attributes and logs.
ServiceLabels(svc) ==
    IF svc = "data-store"
    THEN [service |-> "data-store", service_type |-> "database_service"]
    ELSE [service |-> "document-api"]

\* A frame: the log calls and metric samples of one request, in order (ev), and
\* the spans it opened (sp).
EmptyFrame == [ev |-> <<>>, sp |-> <<>>]

Emit(F, e) == [F EXCEPT !.ev = Append(@, e)]

\* A dispatch whose else branch is the warning sink.
LevelSink_else_warning(level) ==
    IF level \in {"debug", "info", "warning", "error", "critical"} THEN level ELSE "warning"

\* The severity sink log_with_context dispatches to.
LevelSink(level) == IF level \in {"debug", "info", "warning", "error", "critical"} THEN level ELSE "info"

\* The names a LogRecord holds itself: Logger.makeRecord refuses an `extra`
\* that has one of them as a key ("Attempt to overwrite ... in LogRecord").
ReservedNames ==
    {"message", "asctime", "name", "msg", "args", "levelname", "levelno", "pathname",
     "filename", "module", "exc_info", "exc_text", "stack_info", "lineno", "funcName",
     "created", "msecs", "relativeCreated", "thread", "threadName", "processName", "process"}

\* log_data = {"correlation_id": ..., "log_message": ..., "service": ...,
\* "timestamp": ..., **kwargs}: the caller's fields come last and win.
log_data(E, message, kwargs) ==
    Merge(Merge([correlation_id |-> get_correlation_id(E.cx, E.task),
                 log_message |-> message, timestamp |-> "now"],
                ServiceLabels(E.svc)), kwargs)

\* logger.<level>(message, extra=extra): the exception the call raises.  A
\* record below the logger's level is dropped before it is made; makeRecord
\* raises KeyError for a reserved key.  log_with_context has no try around it.
logger_raises(level, extra) ==
    IF isEnabledFor(level) /\ DOMAIN extra \cap ReservedNames # {}
    THEN Error("KeyError", "Attempt to overwrite in LogRecord")
    ELSE NoExc

\* The exception that leaves log_with_context(message, level, **kwargs).
log_with_context_raises(E, message, level, kwargs) ==
    logger_raises(LevelSink(level), log_data(E, message, kwargs))

\* log_with_context(message, level, **kwargs): one call of the logger at the
\* level's sink; `emitted` tells whether the logger let the record through.
log_with_context(F, E, message, level, kwargs) ==
    Emit(F, [kind |-> "log", level |-> LevelSink(level), msg |-> message,
             emitted |-> isEnabledFor(LevelSink(level))
                         /\ log_with_context_raises(E, message, level, kwargs) = NoExc,
             extra |-> log_data(E, message, kwargs)])

-----------------------------------------------------------------------------
(* observability.py: metrics *)

\* counter.add(1, labels) or histogram.record(duration, labels).
Sample(name, labels) == [kind |-> "metric", name |-> name, labels |-> labels]

RECURSIVE str(_)
\* str(n) of a non-negative int: its decimal digits.
str(n) == IF n < 10 THEN <<n>> ELSE Append(str(n \div 10), n % 10)

\* The classification with its boundary one off.
error_category_off_by_one(status) == IF status <= 500 THEN "4xx" ELSE "5xx"

\* "4xx" if response.status_code < 500 else "5xx"
error_category(status) == IF status < 500 THEN "4xx" ELSE "5xx"

\* log_request_metrics that skips the request counter for an error response.
log_request_metrics_no_count_on_error(F, E, method, path, status) ==
    LET correlation_id == get_correlation_id(E.cx, E.task)
        F1 == IF status >= 400 THEN F
              ELSE Emit(F, Sample("http_requests_total",
                    Merge([method |-> method, path |-> path, status_code |-> str(status),
                           correlation_id |-> correlation_id], ServiceLabels(E.svc))))
        F2 == Emit(F1, Sample("http_request_duration_seconds",
                    Merge([method |-> method, path |-> path,
                           correlation_id |-> correlation_id], ServiceLabels(E.svc))))
    IN  IF status >= 400
        THEN Emit(F2, Sample("http_errors_total",
                    Merge([method |-> method, path |-> path, status_code |-> str(status),
                           correlation_id |-> correlation_id,
                           error_category |-> error_category(status)], ServiceLabels(E.svc))))
        ELSE F2

\* log_request_metrics that writes a log record after its samples.
log_request_metrics_then_logs(F, E, method, path, status) ==
    log_with_context(
        Emit(Emit(F, Sample("http_requests_total",
                    Merge([method |-> method, path |-> path, status_code |-> str(status),
                           correlation_id |-> get_correlation_id(E.cx, E.task)],
                          ServiceLabels(E.svc)))),
             Sample("http_request_duration_seconds",
                    Merge([method |-> method, path |-> path,
                           correlation_id |-> get_correlation_id(E.cx, E.task)],
                          ServiceLabels(E.svc)))),
        E, "Request metrics recorded", "info", <<>>)

\* log_request_metrics(request, response, duration)
log_request_metrics(F, E, method, path, status) ==
    LET correlation_id == get_correlation_id(E.cx, E.task)
        F1 == Emit(F, Sample("http_requests_total",
                    Merge([method |-> method, path |-> path, status_code |-> str(status),
                           correlation_id |-> correlation_id], ServiceLabels(E.svc))))
        F2 == Emit(F1, Sample("http_request_duration_seconds",
                    Merge([method |-> method, path |-> path,
                           correlation_id |-> correlation_id], ServiceLabels(E.svc))))
    IN  IF status >= 400
        THEN Emit(F2, Sample("http_errors_total",
                    Merge([method |-> method, path |-> path, status_code |-> str(status),
                           correlation_id |-> correlation_id,
                           error_category |-> error_category(status)], ServiceLabels(E.svc))))
        ELSE F2

-----------------------------------------------------------------------------
(* observability.py: spans *)

\* create_span that records no id at all where none is installed.
create_span_null_id(E, name, operation, attributes) ==
    [name |-> name,
     attrs |-> Merge(Merge([correlation_id |-> IF get_correlation_id(E.cx, E.task) = EmptyId
                                               THEN <<0>>
                                               ELSE get_correlation_id(E.cx, E.task),
                            operation |-> operation], ServiceLabels(E.svc)), attributes),
     ends |-> 0, exported |-> 0, late |-> FALSE]

\* create_span(name, operation, **attributes): a started span whose attributes
\* are the correlation id, the operation, the service identity and the caller's.
create_span(E, name, operation, attributes) ==
    [name |-> name,
     attrs |-> Merge(Merge([correlation_id |-> get_correlation_id(E.cx, E.task),
                            operation |-> operation], ServiceLabels(E.svc)), attributes),
     ends |-> 0, exported |-> 0, late |-> FALSE]

\* The span is appended to the frame; its handle is its index.
Open(F, span) == [F EXCEPT !.sp = Append(@, span)]

Last(F) == Len(F.sp)

\* span.set_attribute(k, v): recorded while the span is open; on an ended span
\* the SDK drops the call.
set_attribute(F, i, k, v) ==
    [F EXCEPT !.sp[i] = IF @.ends = 0
                        THEN [@ EXCEPT !.attrs = Merge(@, k :> v)]
                        ELSE [@ EXCEPT !.late = TRUE]]

RECURSIVE set_attributes(_, _, _)
\* Consecutive span.set_attribute calls on one span, in order.
set_attributes(F, i, kvs) ==
    IF kvs = <<>> THEN F
    ELSE set_attributes(set_attribute(F, i, Head(kvs)[1], Head(kvs)[2]), i, Tail(kvs))

\* An end() that hands the span to the exporter on every call.
end_exports_each_time(F, i) ==
    [F EXCEPT !.sp[i] = [@ EXCEPT !.ends = @ + 1, !.exported = @ + 1]]

\* A with-block exit that forgets to end the span.
end_never(F, i) == F

\* span.end(), also run by the span's own __exit__ at the end of a with-block:
\* the first call hands the span to the exporter, a later one does nothing.
end(F, i) ==
    [F EXCEPT !.sp[i] = [@ EXCEPT !.ends = @ + 1,
                                  !.exported = IF @ = 0 THEN 1 ELSE @]]

\* The exception span.end() raises: none; on an ended span the SDK logs a
\* warning and returns.
end_raises(F, i) == NoExc

-----------------------------------------------------------------------------
(* data-store/observability.py: track_db_operation and DBOperationTracker *)

\* track_db_operation(operation, table, **attributes): reads the correlation id,
\* opens the span and returns the tracker around it.
track_db_operation(F, E, operation, table, attributes) ==
    LET correlation_id == get_correlation_id(E.cx, E.task)
        F1 == Open(F, create_span(E, "db_" \o operation, "database_operation",
                                  Merge([table |-> table], attributes)))
    IN  [F |-> F1,
         trk |-> [span |-> Last(F1), operation |-> operation, table |-> table,
                  correlation_id |-> correlation_id]]

\* The labels shared by the two samples of a tracked operation.
OperationLabels(E, trk) ==
    Merge([operation |-> trk.operation, table |-> trk.table,
           correlation_id |-> trk.correlation_id], ServiceLabels(E.svc))

\* The success flag computed from the wrong side.
exc_type_is_None_inverted(exc) == exc # NoExc

\* `exc_type is None`: no error left the tracked block.
exc_type_is_None(exc) == exc = NoExc

\* __exit__: db_operation_counter.add and db_operation_duration.record.
exit_samples(F, E, trk, exc) ==
    Emit(Emit(F, Sample("database_operations_total",
                        Merge(OperationLabels(E, trk), [success |-> exc_type_is_None(exc)]))),
         Sample("database_operation_duration_seconds", OperationLabels(E, trk)))

\* __exit__: the span attributes.
exit_attributes(F, trk, exc) ==
    LET F1 == set_attributes(F, trk.span, << <<"duration", "duration">>,
                    <<"success", exc_type_is_None(exc)>>, <<"table", trk.table>>,
                    <<"operation_type", trk.operation>> >>)
    IN  IF exc.type # "None"
        THEN set_attributes(F1, trk.span, << <<"error", exc.msg>>,
                                             <<"error_type", exc.type>> >>)
        ELSE F1

\* __exit__: the span attributes, and the log call of the outcome.
exit_attributes_and_log(F, E, trk, exc) ==
    IF exc.type # "None"
    THEN log_with_context(exit_attributes(F, trk, exc),
            E, "Database operation failed", "error",
            [operation |-> trk.operation, table |-> trk.table,
             error |-> exc.msg, duration |-> "duration"])
    ELSE log_with_context(exit_attributes(F, trk, exc),
            E, "Database operation completed", "debug",
            [operation |-> trk.operation, table |-> trk.table, duration |-> "duration"])

\* __exit__ that returns True, which swallows the error of the tracked block.
DBOperationTracker_exit_returns_true(F, E, trk, exc) ==
    [F |-> end(exit_attributes_and_log(exit_samples(F, E, trk, exc), E, trk, exc), trk.span),
     ret |-> TRUE]

\* __exit__ that ends the span before it records the outcome on it.
DBOperationTracker_exit_ends_first(F, E, trk, exc) ==
    [F |-> exit_attributes_and_log(end(exit_samples(F, E, trk, exc), trk.span), E, trk, exc),
     ret |-> FALSE]

\* DBOperationTracker.__exit__(exc_type, exc_val, exc_tb): the two samples, the
\* span attributes, the log call, span.end(); it returns None (ret is false), so
\* the error of the tracked block goes on to the caller.
DBOperationTracker_exit(F, E, trk, exc) ==
    [F |-> end(exit_attributes_and_log(exit_samples(F, E, trk, exc), E, trk, exc), trk.span),
     ret |-> FALSE]

-----------------------------------------------------------------------------
(* data-store/main.py: the route handlers.  A handler of data-store has no    *)
(* await in its body: it runs from entry to return or raise in one step.  Its *)
(* value: the frame, the tracked block's error (body) and what it raised.     *)

\* What the database session does in the tracked block.
DbOutcomes == {"ok", "error"}
QueryOutcomes == {"found", "none", "error"}

\* create_client_document_metadata(client_id, document, db): `db` is what
\* add/commit/refresh do, `rollback` what db.rollback() does in the except clause.
create_client_document_metadata(F, E, db, rollback) ==
    LET F1 == Open(F, create_span(E, "create_document", "document_creation",
                                  [client_id |-> "client_id"]))
        span == Last(F1)
        F2 == set_attributes(F1, span, << <<"document_keys", "keys">>,
                    <<"filename", "filename">>, <<"file_size", "file_size">> >>)
        T == track_db_operation(F2, E, "insert", "documentmetadata",
                                [client_id |-> "client_id"])
        body == IF db = "ok" THEN NoExc ELSE Error("SQLAlchemyError", "commit failed")
        F3 == IF db = "ok" THEN set_attribute(T.F, T.trk.span, "document_id", "id") ELSE T.F
        X == DBOperationTracker_exit(F3, E, T.trk, body)
        e == Leaves(X.ret, body)
        Fok == log_with_context(
                    set_attributes(X.F, span, << <<"creation_success", TRUE>>,
                                                 <<"document_id", "id">> >>),
                    E, "Document metadata stored successfully", "info",
                    [client_id |-> "client_id", document_id |-> "id", file_name |-> "filename"])
        Ferr == log_with_context(
                    set_attributes(X.F, span, << <<"creation_success", FALSE>>,
                                                 <<"error", e.msg>> >>),
                    E, "Error storing document metadata", "error", [client_id |-> "client_id"])
        raised == IF e = NoExc THEN NoExc
                  ELSE IF rollback = "ok"
                       THEN HTTPException(500, "Failed to store document metadata")
                       ELSE Error("SQLAlchemyError", "rollback failed")
    IN  [F |-> end(IF e = NoExc THEN Fok ELSE Ferr, span), body |-> body,
         seen |-> e, raised |-> raised]

\* get_document_metadata(client_id, document_id, db): `q` is what the query does.
get_document_metadata(F, E, q) ==
    LET F1 == Open(F, create_span(E, "get_document", "document_retrieval",
                                  [client_id |-> "client_id", document_id |-> "document_id"]))
        span == Last(F1)
        T == track_db_operation(F1, E, "select", "documentmetadata",
                                [client_id |-> "client_id", document_id |-> "document_id"])
        tspan == T.trk.span
        body == CASE q = "found" -> NoExc
                  [] q = "none" -> HTTPException(404, "Document not found")
                  [] q = "error" -> Error("SQLAlchemyError", "query failed")
        F2 == CASE q = "found" ->
                     set_attributes(T.F, tspan, << <<"found", TRUE>>, <<"document_id", "id">> >>)
                [] q = "none" ->
                     log_with_context(
                        set_attributes(set_attribute(T.F, tspan, "found", FALSE), span,
                            << <<"retrieval_success", FALSE>>, <<"error_type", "not_found">> >>),
                        E, "Document not found", "warning",
                        [client_id |-> "client_id", document_id |-> "document_id"])
                [] q = "error" -> T.F
        X == DBOperationTracker_exit(F2, E, T.trk, body)
        e == Leaves(X.ret, body)
        Fok == log_with_context(
                    set_attributes(X.F, span, << <<"retrieval_success", TRUE>>,
                        <<"document_id", "id">>, <<"filename", "filename">>,
                        <<"file_size", "file_size">> >>),
                    E, "Document metadata retrieved successfully", "info",
                    [client_id |-> "client_id", document_id |-> "document_id",
                     file_name |-> "filename"])
        Ferr == log_with_context(
                    set_attributes(X.F, span, << <<"retrieval_success", FALSE>>,
                        <<"error_type", "general_error">>, <<"error", e.msg>> >>),
                    E, "Error retrieving document metadata", "error",
                    [client_id |-> "client_id", document_id |-> "document_id"])
        raised == IF e = NoExc THEN NoExc
                  ELSE IF e.type = "HTTPException" THEN e
                  ELSE HTTPException(500, "Failed to retrieve document metadata")
    IN  [F |-> end(IF e = NoExc THEN Fok ELSE IF e.type = "HTTPException" THEN X.F ELSE Ferr,
                   span),
         body |-> body, seen |-> e, raised |-> raised]

-----------------------------------------------------------------------------
(* document-api/main.py: the route handlers, one operator per stretch of code *)
(* between two awaits.                                                         *)

\* What the call to data-store does: a response with a status code, or a
\* transport error (httpx.RequestError).
DownstreamOutcomes ==
    {[error |-> FALSE, status_code |-> c] : c \in {200, 404, 500}}
        \cup {[error |-> TRUE, status_code |-> 0]}

\* What the POST to data-store does for upload_document, which tells a 200
\* from any other status.
StoreOutcomes == {ds \in DownstreamOutcomes : ds.status_code # 404}

\* What reading the upload and writing it to the uploads directory do.
FileOutcomes == {"ok", "read_error", "write_error"}

\* upload_document up to `await file.read()`.
upload_document_enter(F, E) ==
    LET F1 == Open(F, create_span(E, "upload_document", "document_upload",
                                  [client_id |-> "client_id", file_name |-> "filename"]))
        F2 == Open(F1, create_span(E, "file_processing", "file_operations",
                                   [client_id |-> "client_id"]))
    IN  [F |-> F2, span |-> Last(F1), file_span |-> Last(F2)]

\* The except clauses of upload_document for an error e of the try block.
upload_document_except(F, E, span, e) ==
    IF e.type = "RequestError"
    THEN [F |-> log_with_context(
                    set_attributes(F, span, << <<"upload_success", FALSE>>,
                        <<"error_type", "request_error">>, <<"error", e.msg>> >>),
                    E, "Error communicating with data-store", "error",
                    [client_id |-> "client_id"]),
          raised |-> HTTPException(503, "Data store service unavailable")]
    ELSE [F |-> log_with_context(
                    set_attributes(F, span, << <<"upload_success", FALSE>>,
                        <<"error_type", "general_error">>, <<"error", e.msg>> >>),
                    E, "Error uploading document", "error", [client_id |-> "client_id"]),
          raised |-> HTTPException(500, "Failed to upload document")]

\* A cleanup at the end of the try block instead of in a finally clause: it
\* is skipped when an error is in flight.
upload_document_cleanup_in_try(F, E, span, loc, raised, unlink) ==
    IF loc.file_path # "None" /\ loc.on_disk /\ raised = NoExc
    THEN IF unlink = "ok"
         THEN [F |-> end(log_with_context(F, E, "Temporary file cleaned up", "debug",
                                          [file_path |-> "file_path"]), span),
               raised |-> raised, on_disk |-> FALSE]
         ELSE [F |-> end(F, span), raised |-> Error("OSError", "unlink failed"),
               on_disk |-> TRUE]
    ELSE [F |-> end(F, span), raised |-> raised, on_disk |-> loc.on_disk]

\* The finally clause of upload_document, entered with `raised` in flight, and
\* the end of the outer with-block: the temporary file is unlinked when
\* file_path is set and the file exists; an error of unlink replaces `raised`.
upload_document_finally(F, E, span, loc, raised, unlink) ==
    IF loc.file_path # "None" /\ loc.on_disk
    THEN IF unlink = "ok"
         THEN [F |-> end(log_with_context(F, E, "Temporary file cleaned up", "debug",
                                          [file_path |-> "file_path"]), span),
               raised |-> raised, on_disk |-> FALSE]
         ELSE [F |-> end(F, span), raised |-> Error("OSError", "unlink failed"),
               on_disk |-> TRUE]
    ELSE [F |-> end(F, span), raised |-> raised, on_disk |-> loc.on_disk]

\* upload_document from the return of file.read() to `await asyncio.sleep(10)`
\* in summarise_document_using_llm, or to its raise when the file block fails.
\* `written` tells whether a failed write left the file on disk.
upload_document_file(F, E, loc, fo, written, unlink) ==
    IF fo = "ok"
    THEN LET F1 == set_attributes(F, loc.file_span, << <<"file_size", "file_size">>,
                        <<"file_type", "file_type">>, <<"content_type", "content_type">> >>)
             F2 == log_with_context(set_attribute(F1, loc.file_span, "file_path", "file_path"),
                        E, "File processed successfully", "info",
                        [client_id |-> "client_id", file_name |-> "filename",
                         file_size |-> "file_size", file_type |-> "file_type"])
             F3 == Open(end(F2, loc.file_span),
                        create_span(E, "llm_summarization", "document_processing",
                                    [file_path |-> "file_path"]))
         IN  [F |-> F3, raised |-> NoExc, llm_span |-> Last(F3),
              file_path |-> "file_path", on_disk |-> TRUE, returned |-> FALSE]
    ELSE LET e == IF fo = "read_error" THEN Error("IOError", "read failed")
                  ELSE Error("OSError", "write failed")
             loc1 == IF fo = "read_error" THEN loc
                     ELSE [loc EXCEPT !.file_path = "file_path", !.on_disk = written]
             F1 == IF fo = "read_error" THEN F
                   ELSE set_attributes(F, loc.file_span, << <<"file_size", "file_size">>,
                        <<"file_type", "file_type">>, <<"content_type", "content_type">> >>)
             X == upload_document_except(end(F1, loc.file_span), E, loc.span, e)
             Y == upload_document_finally(X.F, E, loc.span, loc1, X.raised, unlink)
         IN  [F |-> Y.F, raised |-> Y.raised, llm_span |-> 0,
              file_path |-> loc1.file_path, on_disk |-> Y.on_disk, returned |-> TRUE]

\* From the return of asyncio.sleep to `await client.post(...)`: the rest of
\* summarise_document_using_llm, then the store_metadata span is opened.
upload_document_summarised(F, E, loc) ==
    LET F1 == set_attributes(F, loc.llm_span, << <<"summary_length", "len">>,
                        <<"processing_success", TRUE>> >>)
        F2 == log_with_context(F1, E, "Document summarization completed", "info",
                        [file_path |-> "file_path", summary_length |-> "len"])
        F3 == Open(end(F2, loc.llm_span),
                   create_span(E, "store_metadata", "data_operation",
                               [client_id |-> "client_id"]))
    IN  [F |-> set_attribute(F3, Last(F3), "metadata_keys", "keys"), store_span |-> Last(F3)]

\* From the outcome `ds` of client.post to the handler's return or raise.
upload_document_stored(F, E, loc, ds, unlink) ==
    LET e == IF ds.error THEN Error("RequestError", "connection failed")
             ELSE IF ds.status_code # 200
                  THEN HTTPException(500, "Failed to store document metadata")
                  ELSE NoExc
        Fbad == log_with_context(
                    set_attributes(F, loc.store_span, << <<"store_success", FALSE>>,
                        <<"error_status", ds.status_code>> >>),
                    E, "Failed to store metadata", "error",
                    [client_id |-> "client_id", status_code |-> ds.status_code])
        Fgood == log_with_context(
                    set_attributes(F, loc.store_span, << <<"store_success", TRUE>>,
                        <<"document_id", "id">> >>),
                    E, "Metadata stored successfully", "info",
                    [client_id |-> "client_id", document_id |-> "id"])
        F1 == end(IF ds.error THEN F ELSE IF ds.status_code # 200 THEN Fbad ELSE Fgood,
                  loc.store_span)
        Fok == log_with_context(
                    set_attributes(F1, loc.span, << <<"upload_success", TRUE>>,
                        <<"document_id", "id">>, <<"total_file_size", "file_size">> >>),
                    E, "Document uploaded successfully", "info",
                    [client_id |-> "client_id", file_name |-> "filename", document_id |-> "id"])
        X == IF e = NoExc THEN [F |-> Fok, raised |-> NoExc]
             ELSE upload_document_except(F1, E, loc.span, e)
        Y == upload_document_finally(X.F, E, loc.span, loc, X.raised, unlink)
    IN  [F |-> Y.F, raised |-> Y.raised, on_disk |-> Y.on_disk]

\* retrieve_document_metadata up to `await client.get(...)`.
retrieve_document_metadata_enter(F, E) ==
    LET F1 == Open(F, create_span(E, "retrieve_document", "document_retrieval",
                                  [client_id |-> "client_id", document_id |-> "document_id"]))
        F2 == Open(F1, create_span(E, "fetch_metadata", "data_operation",
                                   [client_id |-> "client_id"]))
    IN  [F |-> F2, span |-> Last(F1), fetch_span |-> Last(F2)]

\* From the outcome `ds` of client.get to the handler's return or raise.
retrieve_document_metadata_fetched(F, E, loc, ds) ==
    LET ids == [client_id |-> "client_id", document_id |-> "document_id"]
        F404 == log_with_context(
                    set_attributes(F, loc.fetch_span, << <<"fetch_success", FALSE>>,
                        <<"error_type", "not_found">> >>),
                    E, "Document not found", "warning", ids)
        Fbad == log_with_context(
                    set_attributes(F, loc.fetch_span, << <<"fetch_success", FALSE>>,
                        <<"error_status", ds.status_code>> >>),
                    E, "Failed to retrieve metadata", "error",
                    Merge(ids, [status_code |-> ds.status_code]))
        Fgood == log_with_context(
                    set_attributes(F, loc.fetch_span, << <<"fetch_success", TRUE>>,
                        <<"metadata_keys", "keys">> >>),
                    E, "Metadata retrieved successfully", "info", ids)
        e == IF ds.error THEN Error("RequestError", "connection failed")
             ELSE IF ds.status_code = 404 THEN HTTPException(404, "Document not found")
             ELSE IF ds.status_code # 200
                  THEN HTTPException(500, "Failed to retrieve document metadata")
                  ELSE NoExc
        F1 == end(IF ds.error THEN F
                  ELSE IF ds.status_code = 404 THEN F404
                  ELSE IF ds.status_code # 200 THEN Fbad ELSE Fgood,
                  loc.fetch_span)
        Fok == set_attributes(F1, loc.span, << <<"retrieval_success", TRUE>>,
                        <<"metadata_keys", "keys">> >>)
        Freq == log_with_context(
                    set_attributes(F1, loc.span, << <<"retrieval_success", FALSE>>,
                        <<"error_type", "request_error">>, <<"error", e.msg>> >>),
                    E, "Error communicating with data-store", "error", ids)
    IN  [F |-> end(IF e = NoExc THEN Fok ELSE IF e.type = "RequestError" THEN Freq ELSE F1,
                   loc.span),
         raised |-> IF e.type = "RequestError"
                    THEN HTTPException(503, "Data store service unavailable")
                    ELSE e]

-----------------------------------------------------------------------------
(* The request lifecycle *)

\* The handler's locals that live across its awaits: the span handles (0: not
\* opened yet), file_path and whether the file is on disk; body and seen record
\* the error of the tracked block and the error its caller saw.
NoLocal == [body |-> NoExc, seen |-> NoExc, span |-> 0, file_span |-> 0, llm_span |-> 0,
            store_span |-> 0, fetch_span |-> 0, file_path |-> "None", on_disk |-> FALSE]

NoResult == [status |-> 0, raised |-> NoExc]

NoResponse == [sent |-> FALSE, status |-> 0, headers |-> {}]

\* No direct call yet: `set` holds the value last passed to set_correlation_id
\* (<<>>: none was), `got` what get_correlation_id returned since (<<>>: no
\* call since), `raised` the exception that left the last call, `level` the
\* level value last passed to log_with_context, `trk` the tracker of the
\* track_db_operation scope that is open (<<>>: none is).
NoCalls == [set |-> <<>>, got |-> <<>>, raised |-> NoExc, level |-> "", trk |-> <<>>]

\* No ASGI call yet: the scope's type, client entry and user-agent header, the
\* send callable the wrapped application was given, the messages it passed to
\* it (app), those that reached the original send (sent), and the exception
\* that left the send callable.
NoAsgi == [type |-> "none", client |-> "none", user_agent |-> FALSE, given |-> "none",
           app |-> <<>>, sent |-> <<>>, raised |-> NoExc]

\* No row: what a query that matches nothing yields.
NoRow == [id |-> 0, client_id |-> <<>>, filename |-> ""]

\* No request yet: the handler (op) and its parameters client_id, filename and
\* document_id, the uploads that had returned when the request was made
\* (after), the path parameter as the outbound URL carries it (url), the JSON
\* body of the outbound call (json), data-store's reply, and the status and
\* body the client receives.
NoHttp == [op |-> "none", client_id |-> <<>>, filename |-> "", document_id |-> 0,
           after |-> {}, url |-> <<>>, json |-> <<>>,
           reply |-> [status |-> 0, row |-> NoRow], status |-> 0, body |-> NoRow]

\* No health check yet: what the database check, the table check, the
\* file-system check and the call to data-store's /health did, and the body
\* health_check returned.
NoHealth == [database |-> "none", tables |-> "none", file_system |-> "none",
             data_store |-> "none", body |-> [status |-> "none"]]

Init ==
    /\ service \in Services
    /\ pc = [r \in Req |-> "idle"]
    /\ route = [r \in Req |-> "none"]
    /\ ctx = [t \in Task |-> EmptyId]
    /\ uuidCount = 0
    /\ scope = [r \in Req |-> EmptyId]
    /\ frame = [r \in Req |-> EmptyFrame]
    /\ local = [r \in Req |-> NoLocal]
    /\ result = [r \in Req |-> NoResult]
    /\ response = [r \in Req |-> NoResponse]
    /\ caller = [r \in Req |-> 0]
    /\ calls = [r \in Req |-> NoCalls]
    /\ asgi = [r \in Req |-> NoAsgi]
    /\ documentmetadata = <<>>
    /\ http = [r \in Req |-> NoHttp]
    /\ health = [r \in Req |-> NoHealth]

\* The environment of the code the inner task of request r runs.
Inner(r) == Env(ctx, <<r, "inner">>, ServiceOf(route[r]))

\* The environment of the code the outer task of request r runs.
Outer(r) == Env(ctx, <<r, "outer">>, ServiceOf(route[r]))

\* A request for route rt arrives: the server runs it in a task of its own, with
\* no correlation id installed.  add_process_time_header takes start_time and
\* awaits call_next(request), which starts the rest of the stack in a child task
\* on a copy of the caller's context.
add_process_time_header_call(r, rt) ==
    /\ pc[r] = "idle"
    /\ ServiceOf(rt) = service
    /\ route' = [route EXCEPT ![r] = rt]
    /\ ctx' = [ctx EXCEPT ![<<r, "inner">>] = ctx[<<r, "outer">>]]
    /\ pc' = [pc EXCEPT ![r] = "call_next"]
    /\ UNCHANGED <<health, documentmetadata, http, caller, calls, asgi, service, uuidCount, scope, frame, local, result, response>>

\* ObservabilityMiddleware.__call__ for an http scope, up to its await of the
\* wrapped application.  Requests run the same code and differ in nothing but
\* their names: they are numbered in the order in which this step runs for them.
ObservabilityMiddleware_call(r) ==
    /\ pc[r] = "call_next"
    /\ \A q \in Req : q < r => pc[q] \notin {"idle", "call_next"}
    /\ LET correlation_id == generate_correlation_id(uuidCount)
       IN  /\ uuidCount' = uuidCount + 1
           /\ ctx' = set_correlation_id(ctx, <<r, "inner">>, correlation_id)
           /\ scope' = [scope EXCEPT ![r] = correlation_id]
    /\ pc' = [pc EXCEPT ![r] = "handler"]
    /\ UNCHANGED <<health, documentmetadata, http, caller, calls, asgi, service, route, frame, local, result, response>>

\* An exception handler that answers every HTTPException with status 500.
StatusOf_always_500(res) == IF res.raised = NoExc THEN res.status ELSE 500

\* The status of the response the application makes of a handler's result: the
\* returned response's, or the HTTPException's (fastapi's exception handler).
StatusOf(res) == IF res.raised = NoExc THEN res.status ELSE res.raised.status

\* What the "client" entry of a scope can be: a (host, port) pair, missing, or
\* None (the ASGI specification's default, e.g. a server on a unix socket).
ClientEntries == {"pair", "absent", "null"}

\* scope.get("client", ("unknown", 0))[0]: the default stands in for a missing
\* key only.
client_ip(client) == IF client = "absent" THEN "unknown" ELSE "client_ip"

\* The exception of that expression: None is not subscriptable.
client_ip_raises(client) ==
    IF client = "null" THEN Error("TypeError", "NoneType object is not subscriptable")
    ELSE NoExc

\* headers.get(b"user-agent", b"").decode(), the header being present or not.
user_agent(present) == IF present THEN "user_agent" ELSE ""

\* The scope of a request as the server builds it.
ServerScope == [client |-> "pair", user_agent |-> TRUE]

\* The messages of an http response, and of a websocket.
ResponseStart == [type |-> "http.response.start", n |-> 0]
Body(n) == [type |-> "http.response.body", n |-> n]
WebsocketMessage(n) == [type |-> IF n = 0 THEN "websocket.accept" ELSE "websocket.send", n |-> n]

\* custom_send(message): for http.response.start the "Request started" log
\* (unless reading the client address raises, which leaves custom_send before
\* the log and before the forward); then await send(message).  correlation_id
\* is the value __call__ generated (a variable of the enclosing call).
custom_send_message(F, correlation_id, rt, sc, message) ==
    IF message.type = "http.response.start"
    THEN IF client_ip_raises(sc.client) # NoExc
         THEN [F |-> F, forwarded |-> FALSE, raised |-> client_ip_raises(sc.client)]
         ELSE [F |-> Emit(F, [kind |-> "log", level |-> "info", msg |-> "Request started",
                     emitted |-> isEnabledFor("info"),
                     extra |-> Merge([correlation_id |-> correlation_id,
                                      method |-> MethodOf(rt), path |-> PathOf(rt),
                                      client_ip |-> client_ip(sc.client),
                                      user_agent |-> user_agent(sc.user_agent),
                                      request_type |-> "http_start"],
                                     IF ServiceOf(rt) = "data-store"
                                     THEN [service |-> "data-store"] ELSE <<>>)]),
               forwarded |-> TRUE, raised |-> NoExc]
    ELSE [F |-> F, forwarded |-> TRUE, raised |-> NoExc]

\* custom_send(message) for the http.response.start message of a response to a
\* request the server delivered.
custom_send(F, correlation_id, rt) ==
    custom_send_message(F, correlation_id, rt, ServerScope, ResponseStart).F

\* The handler of request r returned, or raised `raised`, with frame F.  A
\* return value or an HTTPException becomes a response, whose first message
\* passes custom_send before the inner task suspends in send.  Any other error
\* has no exception handler: it passes ObservabilityMiddleware.__call__ and
\* call_next raises it in the outer task.
Returns(r, F, raised) ==
    /\ result' = [result EXCEPT ![r] = [status |-> 200, raised |-> raised]]
    /\ IF raised.type \in {"None", "HTTPException"}
       THEN /\ frame' = [frame EXCEPT ![r] = custom_send(F, scope[r], route[r])]
            /\ pc' = [pc EXCEPT ![r] = "responded"]
       ELSE /\ frame' = [frame EXCEPT ![r] = F]
            /\ pc' = [pc EXCEPT ![r] = "raised"]

\* The route handler of data-store runs to its return or raise.
Handle_create_client_document_metadata(r) ==
    /\ pc[r] = "handler"
    /\ route[r] = "ds_create"
    /\ \E db \in DbOutcomes, rollback \in DbOutcomes :
          LET H == create_client_document_metadata(frame[r], Inner(r), db, rollback)
          IN  /\ local' = [local EXCEPT ![r] = [@ EXCEPT !.body = H.body, !.seen = H.seen]]
              /\ Returns(r, H.F, H.raised)
    /\ UNCHANGED <<health, documentmetadata, http, caller, calls, asgi, service, route, ctx, uuidCount, scope, response>>

Handle_get_document_metadata(r) ==
    /\ pc[r] = "handler"
    /\ route[r] = "ds_get"
    /\ \E q \in QueryOutcomes :
          LET H == get_document_metadata(frame[r], Inner(r), q)
          IN  /\ local' = [local EXCEPT ![r] = [@ EXCEPT !.body = H.body, !.seen = H.seen]]
              /\ Returns(r, H.F, H.raised)
    /\ UNCHANGED <<health, documentmetadata, http, caller, calls, asgi, service, route, ctx, uuidCount, scope, response>>

\* upload_document starts and suspends in file.read().
Handle_upload_document_enter(r) ==
    /\ pc[r] = "handler"
    /\ route[r] = "api_upload"
    /\ LET H == upload_document_enter(frame[r], Inner(r))
       IN  /\ frame' = [frame EXCEPT ![r] = H.F]
           /\ local' = [local EXCEPT ![r] = [@ EXCEPT !.span = H.span,
                                                      !.file_span = H.file_span]]
    /\ pc' = [pc EXCEPT ![r] = "upload_read"]
    /\ UNCHANGED <<health, documentmetadata, http, caller, calls, asgi, service, route, ctx, uuidCount, scope, result, response>>

\* file.read() returns or raises; the file block runs.
Handle_upload_document_file(r) ==
    /\ pc[r] = "upload_read"
    /\ \E fo \in FileOutcomes, written \in BOOLEAN, unlink \in DbOutcomes :
          LET H == upload_document_file(frame[r], Inner(r), local[r], fo, written, unlink)
          IN  /\ local' = [local EXCEPT ![r] = [@ EXCEPT !.llm_span = H.llm_span,
                                !.file_path = H.file_path, !.on_disk = H.on_disk]]
              /\ IF H.returned
                 THEN Returns(r, H.F, H.raised)
                 ELSE /\ frame' = [frame EXCEPT ![r] = H.F]
                      /\ pc' = [pc EXCEPT ![r] = "upload_sleep"]
                      /\ UNCHANGED result
    /\ UNCHANGED <<health, documentmetadata, http, caller, calls, asgi, service, route, ctx, uuidCount, scope, response>>

\* asyncio.sleep(10) returns; the handler suspends in client.post().
Handle_upload_document_summarised(r) ==
    /\ pc[r] = "upload_sleep"
    /\ LET H == upload_document_summarised(frame[r], Inner(r), local[r])
       IN  /\ frame' = [frame EXCEPT ![r] = H.F]
           /\ local' = [local EXCEPT ![r] = [@ EXCEPT !.store_span = H.store_span]]
    /\ pc' = [pc EXCEPT ![r] = "upload_post"]
    /\ UNCHANGED <<health, documentmetadata, http, caller, calls, asgi, service, route, ctx, uuidCount, scope, result, response>>

\* client.post() ends in `ds`; upload_document runs to its return or raise.
upload_document_resumes(r, ds) ==
    /\ pc[r] = "upload_post"
    /\ \E unlink \in DbOutcomes :
          LET H == upload_document_stored(frame[r], Inner(r), local[r], ds, unlink)
          IN  /\ local' = [local EXCEPT ![r] = [@ EXCEPT !.on_disk = H.on_disk]]
              /\ Returns(r, H.F, H.raised)
    /\ UNCHANGED <<health, documentmetadata, http, caller, calls, asgi, service, route, ctx, uuidCount, scope, response>>

\* client.post() returns or raises; the handler runs to its return or raise.
Handle_upload_document_stored(r) ==
    \E ds \in StoreOutcomes : upload_document_resumes(r, ds)

\* retrieve_document_metadata starts and suspends in client.get().
Handle_retrieve_document_metadata_enter(r) ==
    /\ pc[r] = "handler"
    /\ route[r] = "api_retrieve"
    /\ LET H == retrieve_document_metadata_enter(frame[r], Inner(r))
       IN  /\ frame' = [frame EXCEPT ![r] = H.F]
           /\ local' = [local EXCEPT ![r] = [@ EXCEPT !.span = H.span,
                                                      !.fetch_span = H.fetch_span]]
    /\ pc' = [pc EXCEPT ![r] = "retrieve_get"]
    /\ UNCHANGED <<health, documentmetadata, http, caller, calls, asgi, service, route, ctx, uuidCount, scope, result, response>>

\* client.get() ends in `ds`; retrieve_document_metadata runs to its return or
\* raise.
retrieve_document_metadata_resumes(r, ds) ==
    /\ pc[r] = "retrieve_get"
    /\ LET H == retrieve_document_metadata_fetched(frame[r], Inner(r), local[r], ds)
       IN  Returns(r, H.F, H.raised)
    /\ UNCHANGED <<health, documentmetadata, http, caller, calls, asgi, service, route, ctx, uuidCount, scope, local, response>>

\* client.get() returns or raises; the handler runs to its return or raise.
Handle_retrieve_document_metadata_fetched(r) ==
    \E ds \in DownstreamOutcomes : retrieve_document_metadata_resumes(r, ds)

\* The headers of a response before any middleware adds its own.
BaseHeaders == {"content-length", "content-type"}

\* add_process_time_header after call_next returned the response: the header,
\* log_request_metrics, and the response goes to the client.
add_process_time_header_return(r) ==
    /\ pc[r] = "responded"
    /\ frame' = [frame EXCEPT ![r] =
          log_request_metrics(@, Outer(r), MethodOf(route[r]), PathOf(route[r]),
                              StatusOf(result[r]))]
    /\ response' = [response EXCEPT ![r] =
          [sent |-> TRUE, status |-> StatusOf(result[r]),
           headers |-> BaseHeaders \cup {"X-Process-Time"}]]
    /\ pc' = [pc EXCEPT ![r] = "done"]
    /\ UNCHANGED <<health, documentmetadata, http, caller, calls, asgi, service, route, ctx, uuidCount, scope, local, result>>

\* call_next raised: the error leaves add_process_time_header at its await, and
\* the server-error middleware around it answers 500.
add_process_time_header_raise(r) ==
    /\ pc[r] = "raised"
    /\ response' = [response EXCEPT ![r] =
          [sent |-> TRUE, status |-> 500, headers |-> BaseHeaders]]
    /\ pc' = [pc EXCEPT ![r] = "done"]
    /\ UNCHANGED <<health, documentmetadata, http, caller, calls, asgi, service, route, ctx, uuidCount, scope, frame, local, result>>

Next ==
    \E r \in Req :
        \/ \E rt \in Routes : add_process_time_header_call(r, rt)
        \/ ObservabilityMiddleware_call(r)
        \/ Handle_create_client_document_metadata(r)
        \/ Handle_get_document_metadata(r)
        \/ Handle_upload_document_enter(r)
        \/ Handle_upload_document_file(r)
        \/ Handle_upload_document_summarised(r)
        \/ Handle_upload_document_stored(r)
        \/ Handle_retrieve_document_metadata_enter(r)
        \/ Handle_retrieve_document_metadata_fetched(r)
        \/ add_process_time_header_return(r)
        \/ add_process_time_header_raise(r)

Spec == Init /\ [][Next]_vars

-----------------------------------------------------------------------------
(* The two services together: clients address document-api, and the call a   *)
(* document-api handler makes with httpx reaches data-store as a request of  *)
(* its own.  client.post and client.get are given a URL, a JSON body and a   *)
(* timeout, and no header; ObservabilityMiddleware reads no header of the    *)
(* request it receives.                                                      *)

InitCross == Init /\ service = "document-api"

\* The handler of document-api request q is suspended in client.post or
\* client.get: its HTTP request arrives at data-store as request r.
httpx_request(q, r) ==
    /\ pc[q] \in {"upload_post", "retrieve_get"}
    /\ \A x \in Req : caller[x] # q
    /\ pc[r] = "idle"
    /\ caller' = [caller EXCEPT ![r] = q]
    /\ route' = [route EXCEPT ![r] = IF pc[q] = "upload_post" THEN "ds_create" ELSE "ds_get"]
    /\ ctx' = [ctx EXCEPT ![<<r, "inner">>] = ctx[<<r, "outer">>]]
    /\ pc' = [pc EXCEPT ![r] = "call_next"]
    /\ UNCHANGED <<health, documentmetadata, http, calls, asgi, service, uuidCount, scope, frame, local, result, response>>

\* A client that reports every status other than 200 as 500.
httpx_response_error_as_500(q, r) ==
    /\ caller[r] = q
    /\ response[r].sent
    /\ LET ds == [error |-> FALSE,
                  status_code |-> IF response[r].status = 200 THEN 200 ELSE 500]
       IN  \/ upload_document_resumes(q, ds)
           \/ retrieve_document_metadata_resumes(q, ds)

\* data-store has answered request r: the handler of its caller q resumes with
\* the response's status code.
httpx_response(q, r) ==
    /\ caller[r] = q
    /\ response[r].sent
    /\ LET ds == [error |-> FALSE, status_code |-> response[r].status]
       IN  \/ upload_document_resumes(q, ds)
           \/ retrieve_document_metadata_resumes(q, ds)

\* The connection to data-store fails (httpx.RequestError) before the request
\* of q is sent.
httpx_error(q) ==
    /\ \A x \in Req : caller[x] # q
    /\ LET ds == [error |-> TRUE, status_code |-> 0]
       IN  \/ upload_document_resumes(q, ds)
           \/ retrieve_document_metadata_resumes(q, ds)

NextCross ==
    \E r \in Req :
        \/ \E rt \in Routes : add_process_time_header_call(r, rt)
        \/ \E q \in Req : httpx_request(q, r)
        \/ ObservabilityMiddleware_call(r)
        \/ Handle_create_client_document_metadata(r)
        \/ Handle_get_document_metadata(r)
        \/ Handle_upload_document_enter(r)
        \/ Handle_upload_document_file(r)
        \/ Handle_upload_document_summarised(r)
        \/ Handle_retrieve_document_metadata_enter(r)
        \/ \E q \in Req : httpx_response(q, r)
        \/ httpx_error(r)
        \/ add_process_time_header_return(r)
        \/ add_process_time_header_raise(r)

SpecCross == InitCross /\ [][NextCross]_vars

-----------------------------------------------------------------------------
(* log_request_metrics on its own, for every status code a response can carry *)

StatusCodes == {200, 201, 302, 399, 400, 404, 422, 499, 500, 503, 599}

\* add_process_time_header hands log_request_metrics a response of route rt with
\* the given status code.
record_response(r, rt, status) ==
    /\ pc[r] = "idle"
    /\ ServiceOf(rt) = service
    /\ route' = [route EXCEPT ![r] = rt]
    /\ result' = [result EXCEPT ![r] = [status |-> status, raised |-> NoExc]]
    /\ frame' = [frame EXCEPT ![r] =
          log_request_metrics(@, Env(ctx, <<r, "outer">>, service), MethodOf(rt), PathOf(rt),
                              status)]
    /\ pc' = [pc EXCEPT ![r] = "done"]
    /\ UNCHANGED <<health, documentmetadata, http, caller, calls, asgi, service, ctx, uuidCount, scope, local, response>>

NextMetrics == \E r \in Req, rt \in Routes, status \in StatusCodes : record_response(r, rt, status)

SpecMetrics == Init /\ [][NextMetrics]_vars

-----------------------------------------------------------------------------
(* Instruments that fail: a call of a counter, of a histogram or of the      *)
(* logger raises.  Neither DBOperationTracker.__exit__ nor                   *)
(* log_request_metrics nor add_process_time_header has a try around these    *)
(* calls: the statements before the raising call have run, those after it    *)
(* have not, and the exception leaves the function.                          *)

\* The call that raises: the counter (db_operation_counter, request_counter),
\* the histogram (db_operation_duration, request_duration), error_counter, the
\* logger; "none": every call succeeds.
Faults == {"none", "counter", "histogram", "errors", "log"}

InstrumentError == Error("RuntimeError", "instrument failed")

\* Frame G cut back to the first n events it added to frame F.
Upto(F, G, n) == [G EXCEPT !.ev = SubSeq(@, 1, Len(F.ev) + n)]

\* DBOperationTracker.__exit__ with the call `fault` raising.  The logger is
\* reached only by a record at or above its level.
DBOperationTracker_exit_fault(F, E, trk, exc, fault) ==
    LET X == DBOperationTracker_exit(F, E, trk, exc)
        S == exit_samples(F, E, trk, exc)
        level == IF exc.type # "None" THEN "error" ELSE "debug"
    IN  CASE fault = "counter" -> [F |-> F, ret |-> FALSE, raised |-> InstrumentError]
          [] fault = "histogram" ->
                [F |-> Upto(F, S, 1), ret |-> FALSE, raised |-> InstrumentError]
          [] fault = "log" /\ isEnabledFor(level) ->
                [F |-> exit_attributes(S, trk, exc), ret |-> FALSE, raised |-> InstrumentError]
          [] OTHER -> [F |-> X.F, ret |-> X.ret, raised |-> NoExc]

\* log_request_metrics with the call `fault` raising.
log_request_metrics_fault(F, E, method, path, status, fault) ==
    LET G == log_request_metrics(F, E, method, path, status)
    IN  CASE fault = "counter" -> [F |-> F, raised |-> InstrumentError]
          [] fault = "histogram" -> [F |-> Upto(F, G, 1), raised |-> InstrumentError]
          [] fault = "errors" /\ status >= 400 ->
                [F |-> Upto(F, G, 2), raised |-> InstrumentError]
          [] OTHER -> [F |-> G, raised |-> NoExc]

\* What the body of a tracked block does: it returns, or raises a business error.
BodyOutcomes ==
    {NoExc, HTTPException(404, "Document not found"), Error("SQLAlchemyError", "query failed")}

\* The status codes of the responses handed to log_request_metrics.
FaultStatusCodes == {200, 404, 500}

\* with track_db_operation("select", "documentmetadata") as db_span: <body>,
\* the body ending in `exc` and __exit__ run with `fault`.  An exception raised
\* by __exit__ replaces the one in flight; seen is what leaves the statement.
tracked_block(r, exc, fault) ==
    /\ pc[r] = "idle"
    /\ service = "data-store"
    /\ route' = [route EXCEPT ![r] = "ds_get"]
    /\ LET E == Env(ctx, <<r, "inner">>, service)
           T == track_db_operation(frame[r], E, "select", "documentmetadata", <<>>)
           X == DBOperationTracker_exit_fault(T.F, E, T.trk, exc, fault)
       IN  /\ frame' = [frame EXCEPT ![r] = X.F]
           /\ local' = [local EXCEPT ![r] =
                    [@ EXCEPT !.body = exc,
                              !.seen = IF X.raised # NoExc THEN X.raised
                                       ELSE Leaves(X.ret, exc)]]
    /\ pc' = [pc EXCEPT ![r] = "responded"]
    /\ UNCHANGED <<health, documentmetadata, http, caller, calls, asgi, service, ctx, uuidCount, scope, result, response>>

\* add_process_time_header after call_next returned a response of route rt with
\* the given status, log_request_metrics run with `fault`: an exception leaves
\* the middleware and the server-error middleware answers 500.
add_process_time_header_fault(r, rt, status, fault) ==
    /\ pc[r] = "idle"
    /\ ServiceOf(rt) = service
    /\ route' = [route EXCEPT ![r] = rt]
    /\ result' = [result EXCEPT ![r] = [status |-> status, raised |-> NoExc]]
    /\ LET X == log_request_metrics_fault(frame[r], Env(ctx, <<r, "outer">>, service),
                                          MethodOf(rt), PathOf(rt), status, fault)
       IN  /\ frame' = [frame EXCEPT ![r] = X.F]
           /\ response' = [response EXCEPT ![r] =
                    IF X.raised = NoExc
                    THEN [sent |-> TRUE, status |-> status,
                          headers |-> BaseHeaders \cup {"X-Process-Time"}]
                    ELSE [sent |-> TRUE, status |-> 500, headers |-> BaseHeaders]]
    /\ pc' = [pc EXCEPT ![r] = "done"]
    /\ UNCHANGED <<health, documentmetadata, http, caller, calls, asgi, service, ctx, uuidCount, scope, local>>

NextFaults ==
    \E r \in Req, fault \in Faults :
        \/ \E exc \in BodyOutcomes : tracked_block(r, exc, fault)
        \/ \E rt \in Routes, status \in FaultStatusCodes :
              add_process_time_header_fault(r, rt, status, fault)

SpecFaults == Init /\ [][NextFaults]_vars

-----------------------------------------------------------------------------
(* The telemetry functions called directly: each task (here the task of      *)
(* request r, outside any middleware) calls them with inputs of its choice,  *)
(* the calls of different tasks interleaving.                                *)

\* The values a caller passes to set_correlation_id.
CallerIds == {EmptyId, uuid4(1)}

\* The level values a caller passes to log_with_context; "verbose" is none of
\* the five the function knows.
CallerLevels == {"debug", "info", "error", "verbose"}

\* The keyword fields a caller passes to log_with_context: a plain one, one
\* named like a LogRecord attribute, and the two named like fields the function
\* sets itself.
CallerFields ==
    {[client_id |-> "client_id"], [filename |-> "a.txt"],
     [correlation_id |-> uuid4(2)], [service |-> "other"]}

\* The environment of a direct call by the task of request r.
Direct(r) == Env(ctx, <<r, "outer">>, service)

\* set_correlation_id(v)
call_set_correlation_id(r, v) ==
    /\ pc[r] = "idle"
    /\ ctx' = set_correlation_id(ctx, <<r, "outer">>, v)
    /\ calls' = [calls EXCEPT ![r] = [@ EXCEPT !.set = <<v>>, !.got = <<>>]]
    /\ UNCHANGED <<health, documentmetadata, http, caller, asgi, service, pc, route, uuidCount, scope, frame, local,
                   result, response>>

\* get_correlation_id()
call_get_correlation_id(r) ==
    /\ pc[r] = "idle"
    /\ calls' = [calls EXCEPT ![r].got = <<get_correlation_id(ctx, <<r, "outer">>)>>]
    /\ UNCHANGED <<health, documentmetadata, http, caller, asgi, service, pc, route, ctx, uuidCount, scope, frame, local,
                   result, response>>

\* with create_span(name, operation): pass
call_create_span(r) ==
    /\ pc[r] = "idle"
    /\ frame' = [frame EXCEPT ![r] =
          LET F1 == Open(@, create_span(Direct(r), "span", "operation", <<>>))
          IN  end(F1, Last(F1))]
    /\ pc' = [pc EXCEPT ![r] = "done"]
    /\ UNCHANGED <<health, documentmetadata, http, caller, calls, asgi, service, route, ctx, uuidCount, scope, local,
                   result, response>>

\* with track_db_operation(operation, table): pass  (data-store only)
call_track_db_operation(r) ==
    /\ pc[r] = "idle"
    /\ service = "data-store"
    /\ frame' = [frame EXCEPT ![r] =
          LET T == track_db_operation(@, Direct(r), "select", "documentmetadata", <<>>)
          IN  DBOperationTracker_exit(T.F, Direct(r), T.trk, NoExc).F]
    /\ pc' = [pc EXCEPT ![r] = "done"]
    /\ UNCHANGED <<health, documentmetadata, http, caller, calls, asgi, service, route, ctx, uuidCount, scope, local,
                   result, response>>

\* log_with_context("message", level, **kwargs)
call_log_with_context(r, level, kwargs) ==
    /\ pc[r] = "idle"
    /\ frame' = [frame EXCEPT ![r] = log_with_context(@, Direct(r), "message", level, kwargs)]
    /\ calls' = [calls EXCEPT ![r] =
          [@ EXCEPT !.level = level,
                    !.raised = log_with_context_raises(Direct(r), "message", level, kwargs)]]
    /\ pc' = [pc EXCEPT ![r] = "done"]
    /\ UNCHANGED <<health, documentmetadata, http, caller, asgi, service, route, ctx, uuidCount, scope, local, result,
                   response>>

NextCalls ==
    \E r \in Req :
        \/ \E v \in CallerIds : call_set_correlation_id(r, v)
        \/ call_get_correlation_id(r)
        \/ call_create_span(r)
        \/ call_track_db_operation(r)
        \/ call_log_with_context(r, "info", [client_id |-> "client_id"])

SpecCalls == Init /\ [][NextCalls]_vars

NextLog ==
    \E r \in Req :
        \/ \E v \in CallerIds : call_set_correlation_id(r, v)
        \/ \E level \in CallerLevels, kwargs \in CallerFields :
              call_log_with_context(r, level, kwargs)

SpecLog == Init /\ [][NextLog]_vars

\* The level values of log_with_context: the five it names, and values it does
\* not (the comparison is case-sensitive).
Levels == {"debug", "info", "warning", "error", "critical", "verbose", "INFO"}

NextLevels ==
    \E r \in Req :
        \/ \E v \in CallerIds : call_set_correlation_id(r, v)
        \/ \E level \in Levels : call_log_with_context(r, level, [client_id |-> "client_id"])

SpecLevels == Init /\ [][NextLevels]_vars

-----------------------------------------------------------------------------
(* ObservabilityMiddleware called with scopes of every kind, around an       *)
(* application that sends its messages one by one.                           *)

\* The most messages an application sends in one call.
MaxMsgs == 2

ScopeTypes == {"http", "websocket"}

\* The route whose method and path the scope of a call carries.
ProbeRoute(svc) == IF svc = "data-store" THEN "ds_get" ELSE "api_retrieve"

\* A branch that takes every scope for an http scope.
is_http_always(type) == TRUE

\* scope["type"] == "http"
is_http(type) == type = "http"

\* ObservabilityMiddleware.__call__(scope, receive, send) up to its await of
\* self.app: for an http scope the id is generated, installed and put in the
\* scope and the application is given custom_send; for any other scope the
\* application is given send.  Calls are numbered in the order they are made.
asgi_call(r, type, client, ua) ==
    /\ pc[r] = "idle"
    /\ \A q \in Req : q < r => pc[q] # "idle"
    /\ type # "http" => (client = "absent" /\ ~ua)
    /\ route' = [route EXCEPT ![r] = ProbeRoute(service)]
    /\ IF is_http(type)
       THEN LET correlation_id == generate_correlation_id(uuidCount)
            IN  /\ uuidCount' = uuidCount + 1
                /\ ctx' = set_correlation_id(ctx, <<r, "inner">>, correlation_id)
                /\ scope' = [scope EXCEPT ![r] = correlation_id]
       ELSE UNCHANGED <<uuidCount, ctx, scope>>
    /\ asgi' = [asgi EXCEPT ![r] =
          [@ EXCEPT !.type = type, !.client = client, !.user_agent = ua,
                    !.given = IF is_http(type) THEN "custom_send" ELSE "send"]]
    /\ pc' = [pc EXCEPT ![r] = "app"]
    /\ UNCHANGED <<health, documentmetadata, http, caller, calls, service, frame, local, result, response>>

\* The next message of the application of call r: the response start and then
\* body chunks for http, accept and then data for a websocket.
NextMessage(r) ==
    LET n == Len(asgi[r].app)
    IN  IF asgi[r].type = "http"
        THEN IF n = 0 THEN ResponseStart ELSE Body(n)
        ELSE WebsocketMessage(n)

\* The application awaits the send callable it was given with its next
\* message.  An exception of custom_send is raised in the application, which
\* does not catch it, and leaves __call__.
app_send(r) ==
    /\ pc[r] = "app"
    /\ Len(asgi[r].app) < MaxMsgs
    /\ LET m == NextMessage(r)
           X == IF asgi[r].given = "custom_send"
                THEN custom_send_message(frame[r], scope[r], route[r],
                        [client |-> asgi[r].client, user_agent |-> asgi[r].user_agent], m)
                ELSE [F |-> frame[r], forwarded |-> TRUE, raised |-> NoExc]
       IN  /\ frame' = [frame EXCEPT ![r] = X.F]
           /\ asgi' = [asgi EXCEPT ![r] =
                 [@ EXCEPT !.app = Append(@, m),
                           !.sent = IF X.forwarded THEN Append(@, m) ELSE @,
                           !.raised = X.raised]]
           /\ pc' = [pc EXCEPT ![r] = IF X.raised = NoExc THEN "app" ELSE "raised"]
    /\ UNCHANGED <<health, documentmetadata, http, caller, calls, service, route, ctx, uuidCount, scope, local, result,
                   response>>

\* The application returns, and with it __call__.
app_return(r) ==
    /\ pc[r] = "app"
    /\ Len(asgi[r].app) > 0
    /\ pc' = [pc EXCEPT ![r] = "done"]
    /\ UNCHANGED <<health, documentmetadata, http, caller, calls, asgi, service, route, ctx, uuidCount, scope, frame, local,
                   result, response>>

NextAsgi ==
    \E r \in Req :
        \/ \E type \in ScopeTypes, client \in ClientEntries, ua \in BOOLEAN :
              asgi_call(r, type, client, ua)
        \/ app_send(r)
        \/ app_return(r)

SpecAsgi == Init /\ [][NextAsgi]_vars

-----------------------------------------------------------------------------
(* An upload followed by a retrieval, through both services.  document-api
   builds the data-store URL from its path parameter with an f-string, httpx
   percent-encodes that URL, data-store's server percent-decodes the path and
   the handlers store and query the decoded value.  Text is a sequence of
   characters; the collaborators (disk, summariser, database, network) do not
   fail here. *)

\* The request-path segments a client sends for {client_id}.
PathSegments == { <<"a">>,
                  <<"a", "%", "2", "0", "b">>,
                  <<"a", "%", "2", "5", "2", "0", "b">> }

\* The names of the uploaded files.
Filenames == {"f.txt", "g.txt"}

\* The document ids a client asks for: those data-store can have assigned.
DocumentIds == 1..NumReq

\* s begins with a percent escape of one of the characters used here.
IsEscape(s) ==
    /\ Len(s) >= 3
    /\ s[1] = "%"
    /\ <<s[2], s[3]>> \in { <<"2", "0">>, <<"2", "5">> }

\* The character a percent escape stands for: %20 a space, %25 a percent sign.
Unescaped(s) == IF <<s[2], s[3]>> = <<"2", "0">> THEN " " ELSE "%"

\* The server decodes the request path before the router extracts the path
\* parameters: every percent escape becomes its character.
RECURSIVE unquote(_)
unquote(s) ==
    IF s = <<>> THEN <<>>
    ELSE IF IsEscape(s) THEN <<Unescaped(s)>> \o unquote(SubSeq(s, 4, Len(s)))
    ELSE <<s[1]>> \o unquote(Tail(s))

\* httpx encodes the path of the URL it is given: an existing percent escape
\* is kept as it is, a space or a lone percent sign is escaped.
RECURSIVE quote(_)
quote(s) ==
    IF s = <<>> THEN <<>>
    ELSE IF IsEscape(s) THEN SubSeq(s, 1, 3) \o quote(SubSeq(s, 4, Len(s)))
    ELSE IF s[1] = " " THEN <<"%", "2", "0">> \o quote(Tail(s))
    ELSE IF s[1] = "%" THEN <<"%", "2", "5">> \o quote(Tail(s))
    ELSE <<s[1]>> \o quote(Tail(s))

\* A JSON document and the value parsed from it.
json_dumps(value) == [json |-> value]
json_loads(text) == text.json

\* The requests whose upload has returned.
Uploaded == {q \in Req : http[q].op = "upload" /\ pc[q] = "done"}

\* upload_document(client_id, file) up to `await client.post(url, json=metadata)`:
\* client_id is the decoded path parameter, the URL carries it re-encoded by httpx.
upload_document_posts(r, segment, filename) ==
    /\ pc[r] = "idle"
    /\ \A q \in Req : q < r => pc[q] # "idle"
    /\ LET client_id == unquote(segment)
           metadata == [client_id |-> client_id, filename |-> filename]
       IN  http' = [http EXCEPT ![r] =
                      [@ EXCEPT !.op = "upload", !.client_id = client_id,
                                !.filename = filename, !.after = Uploaded,
                                !.url = quote(client_id),
                                !.json = json_dumps(metadata)]]
    /\ pc' = [pc EXCEPT ![r] = "post"]
    /\ UNCHANGED <<health, documentmetadata, service, route, ctx, uuidCount, scope, frame,
                   local, result, response, caller, calls, asgi>>

\* create_client_document_metadata(client_id, document, db): the row holds the
\* body's fields with client_id replaced by the path parameter; the database
\* assigns the next id on commit and the refreshed row is the response.
ds_create_client_document_metadata(r) ==
    /\ pc[r] = "post"
    /\ LET client_id == unquote(http[r].url)
           document == json_loads(http[r].json)
           document_data == [document EXCEPT !.client_id = client_id]
           db_document == [id |-> Len(documentmetadata) + 1,
                           client_id |-> document_data.client_id,
                           filename |-> document_data.filename]
       IN  /\ documentmetadata' = Append(documentmetadata, db_document)
           /\ http' = [http EXCEPT ![r].reply = [status |-> 200, row |-> db_document]]
    /\ pc' = [pc EXCEPT ![r] = "posted"]
    /\ UNCHANGED <<health, service, route, ctx, uuidCount, scope, frame,
                   local, result, response, caller, calls, asgi>>

\* upload_document after the POST: any status but 200 becomes a 500, otherwise
\* the JSONResponse names the handler's client_id and the stored id.
upload_document_returns(r) ==
    /\ pc[r] = "posted"
    /\ http' = [http EXCEPT ![r] =
                  IF http[r].reply.status # 200
                  THEN [@ EXCEPT !.status = 500]
                  ELSE LET stored_metadata == http[r].reply.row
                       IN  [@ EXCEPT !.status = 200,
                                     !.body = [client_id |-> http[r].client_id,
                                               document_id |-> stored_metadata.id,
                                               metadata |-> stored_metadata]]]
    /\ pc' = [pc EXCEPT ![r] = "done"]
    /\ UNCHANGED <<health, documentmetadata, service, route, ctx, uuidCount, scope, frame,
                   local, result, response, caller, calls, asgi>>

\* retrieve_document_metadata(client_id, document_id) up to `await client.get(url)`.
retrieve_document_metadata_gets(r, segment, document_id) ==
    /\ pc[r] = "idle"
    /\ \A q \in Req : q < r => pc[q] # "idle"
    /\ LET client_id == unquote(segment)
       IN  http' = [http EXCEPT ![r] =
                      [@ EXCEPT !.op = "retrieve", !.client_id = client_id,
                                !.document_id = document_id, !.after = Uploaded,
                                !.url = quote(client_id)]]
    /\ pc' = [pc EXCEPT ![r] = "get"]
    /\ UNCHANGED <<health, documentmetadata, service, route, ctx, uuidCount, scope, frame,
                   local, result, response, caller, calls, asgi>>

\* A query that filters on the document id alone.
query_first_by_id(rows, client_id, document_id) ==
    LET found == {i \in 1..Len(rows) : rows[i].id = document_id}
    IN  IF found = {} THEN NoRow
        ELSE rows[CHOOSE i \in found : \A j \in found : i <= j]

\* db.query(DocumentMetadata).filter(client_id == ..., id == ...).first():
\* the first row with that client_id and that id, or None.
query_first(rows, client_id, document_id) ==
    LET found == {i \in 1..Len(rows) :
                     rows[i].client_id = client_id /\ rows[i].id = document_id}
    IN  IF found = {} THEN NoRow
        ELSE rows[CHOOSE i \in found : \A j \in found : i <= j]

\* get_document_metadata(client_id, document_id, db): the first row with that
\* client_id and that id, or a 404.
ds_get_document_metadata(r) ==
    /\ pc[r] = "get"
    /\ LET client_id == unquote(http[r].url)
           document == query_first(documentmetadata, client_id, http[r].document_id)
       IN  http' = [http EXCEPT ![r].reply =
                      IF document = NoRow THEN [status |-> 404, row |-> NoRow]
                      ELSE [status |-> 200, row |-> document]]
    /\ pc' = [pc EXCEPT ![r] = "got"]
    /\ UNCHANGED <<health, documentmetadata, service, route, ctx, uuidCount, scope, frame,
                   local, result, response, caller, calls, asgi>>

\* retrieve_document_metadata after the GET: a 404 is relayed, any other status
\* but 200 becomes a 500, otherwise the parsed record is returned.
retrieve_document_metadata_returns(r) ==
    /\ pc[r] = "got"
    /\ http' = [http EXCEPT ![r] =
                  IF http[r].reply.status = 404 THEN [@ EXCEPT !.status = 404]
                  ELSE IF http[r].reply.status # 200 THEN [@ EXCEPT !.status = 500]
                  ELSE [@ EXCEPT !.status = 200, !.body = http[r].reply.row]]
    /\ pc' = [pc EXCEPT ![r] = "done"]
    /\ UNCHANGED <<health, documentmetadata, service, route, ctx, uuidCount, scope, frame,
                   local, result, response, caller, calls, asgi>>

NextRoundTrip ==
    \E r \in Req :
        \/ \E segment \in PathSegments, filename \in Filenames :
               upload_document_posts(r, segment, filename)
        \/ ds_create_client_document_metadata(r)
        \/ upload_document_returns(r)
        \/ \E segment \in PathSegments, document_id \in DocumentIds :
               retrieve_document_metadata_gets(r, segment, document_id)
        \/ ds_get_document_metadata(r)
        \/ retrieve_document_metadata_returns(r)

SpecRoundTrip == InitCross /\ [][NextRoundTrip]_vars

-----------------------------------------------------------------------------
(* A track_db_operation scope used directly, with set_correlation_id calls
   between its entry and its exit (data-store only). *)

\* What the block inside the scope does: it completes or it raises.
ScopeOutcomes == {NoExc, Error("OperationalError", "database is locked")}

\* tracker = track_db_operation(operation, table); tracker.__enter__()
enter_track_db_operation(r) ==
    /\ pc[r] = "idle"
    /\ service = "data-store"
    /\ LET T == track_db_operation(frame[r], Direct(r), "select", "documentmetadata", <<>>)
       IN  /\ frame' = [frame EXCEPT ![r] = T.F]
           /\ calls' = [calls EXCEPT ![r].trk = <<T.trk>>]
    /\ pc' = [pc EXCEPT ![r] = "tracked"]
    /\ UNCHANGED <<health, documentmetadata, http, caller, asgi, service, route, ctx, uuidCount,
                   scope, local, result, response>>

\* set_correlation_id(v) in the block inside the scope
scope_set_correlation_id(r, v) ==
    /\ pc[r] = "tracked"
    /\ ctx' = set_correlation_id(ctx, <<r, "outer">>, v)
    /\ calls' = [calls EXCEPT ![r].set = <<v>>]
    /\ UNCHANGED <<health, documentmetadata, http, caller, asgi, service, pc, route, uuidCount,
                   scope, frame, local, result, response>>

\* tracker.__exit__(exc_type, exc_val, exc_tb) at the end of the block
exit_track_db_operation(r, exc) ==
    /\ pc[r] = "tracked"
    /\ frame' = [frame EXCEPT ![r] =
          DBOperationTracker_exit(@, Direct(r), calls[r].trk[1], exc).F]
    /\ calls' = [calls EXCEPT ![r].raised = exc]
    /\ pc' = [pc EXCEPT ![r] = "done"]
    /\ UNCHANGED <<health, documentmetadata, http, caller, asgi, service, route, ctx, uuidCount,
                   scope, local, result, response>>

NextScope ==
    \E r \in Req :
        \/ \E v \in CallerIds : call_set_correlation_id(r, v)
        \/ enter_track_db_operation(r)
        \/ \E v \in CallerIds : scope_set_correlation_id(r, v)
        \/ \E exc \in ScopeOutcomes : exit_track_db_operation(r, exc)

InitScope == Init /\ service = "data-store"

SpecScope == InitScope /\ [][NextScope]_vars

-----------------------------------------------------------------------------
(* create_span used directly: a with-block around a span, and further calls
   of span.end() after the block. *)

\* How many times one span is closed, the with-block's exit included.
MaxEnds == 2

\* The keyword attributes a caller passes to create_span: none, a plain one,
\* and the two named like attributes the function sets itself.
SpanAttributes ==
    {<<>>, [client_id |-> "client_id"], [correlation_id |-> uuid4(2)], [service |-> "other"]}

\* span = create_span(name, operation, **attributes); span.__enter__()
enter_create_span(r, attributes) ==
    /\ pc[r] = "idle"
    /\ frame' = [frame EXCEPT ![r] =
          Open(@, create_span(Direct(r), "span", "operation", attributes))]
    /\ pc' = [pc EXCEPT ![r] = "in_span"]
    /\ UNCHANGED <<health, documentmetadata, http, caller, calls, asgi, service, route, ctx,
                   uuidCount, scope, local, result, response>>

\* span.__exit__(...) at the end of the with-block: span.end()
exit_create_span(r) ==
    /\ pc[r] = "in_span"
    /\ frame' = [frame EXCEPT ![r] = end(@, Last(@))]
    /\ calls' = [calls EXCEPT ![r].raised = end_raises(frame[r], Last(frame[r]))]
    /\ pc' = [pc EXCEPT ![r] = "closed"]
    /\ UNCHANGED <<health, documentmetadata, http, caller, asgi, service, route, ctx,
                   uuidCount, scope, local, result, response>>

\* span.end() on the span after its with-block
span_end(r) ==
    /\ pc[r] = "closed"
    /\ frame[r].sp[Last(frame[r])].ends < MaxEnds
    /\ frame' = [frame EXCEPT ![r] = end(@, Last(@))]
    /\ calls' = [calls EXCEPT ![r].raised = end_raises(frame[r], Last(frame[r]))]
    /\ UNCHANGED <<health, documentmetadata, http, caller, asgi, service, pc, route, ctx,
                   uuidCount, scope, local, result, response>>

NextSpans ==
    \E r \in Req :
        \/ \E v \in CallerIds : call_set_correlation_id(r, v)
        \/ \E attributes \in SpanAttributes : enter_create_span(r, attributes)
        \/ exit_create_span(r)
        \/ span_end(r)

SpecSpans == Init /\ [][NextSpans]_vars

-----------------------------------------------------------------------------
(* main.py: the health_check handlers, called with some correlation id
   installed or none. *)

\* What `db.execute(text("SELECT 1"))` does, and what the table query does.
DatabaseChecks == {"ok", "error"}
TableChecks == {"exists", "missing", "error"}

\* What UPLOADS_DIR.exists() / is_dir() and get_settings() do before the call
\* to data-store: a directory, no directory, or an exception.
FileSystemChecks == {"dir", "absent", "error"}

\* What `client.get(data_store_url + "/health")` does: a status or an exception.
DataStoreChecks == {"200", "503", "error"}

\* An overall status that an unhealthy database only degrades.
overall_status_never_unhealthy(db_status, tables_status) ==
    IF db_status # "healthy" \/ tables_status # "healthy" THEN "degraded" ELSE "healthy"

\* data-store's overall status: healthy, then degraded if a check is not
\* healthy, then unhealthy if the database check is unhealthy.
overall_status(db_status, tables_status) ==
    LET degraded == IF db_status # "healthy" \/ tables_status # "healthy"
                    THEN "degraded" ELSE "healthy"
    IN  IF db_status = "unhealthy" THEN "unhealthy" ELSE degraded

\* health_check_counter.add(1, {"status": status}) and
\* health_check_duration.record(duration).
health_metrics(F, status) ==
    Emit(Emit(F, Sample("health_check_total", [status |-> status])),
         Sample("health_check_duration_seconds", <<>>))

\* The outer except clause of health_check: the two instruments, the error
\* record, and the body that reports unhealthy.
health_check_except(F, E, e) ==
    [F |-> log_with_context(health_metrics(F, "unhealthy"), E, "Health check failed",
                            "error", <<>>),
     body |-> [status |-> "unhealthy", service |-> E.svc, error |-> e.msg]]

\* The end of the try block: the two instruments, the completion record and
\* the body; an exception of the log call is caught by the outer except clause.
health_check_completes(F, E, status, fields, components) ==
    LET F1 == log_with_context(health_metrics(F, status), E, "Health check completed",
                               "info", fields)
        e == log_with_context_raises(E, "Health check completed", "info", fields)
    IN  IF e # NoExc
        THEN health_check_except(F1, E, e)
        ELSE [F |-> F1,
              body |-> [status |-> status, service |-> E.svc, components |-> components]]

\* data-store's health_check(): the database check, the table check (each in
\* its own try), the overall status, the metrics and the body.
ds_health_check(F, E, database, tables) ==
    LET db_status == IF database = "ok" THEN "healthy" ELSE "unhealthy"
        F1 == IF database = "ok" THEN F
              ELSE log_with_context(F, E, "Database health check failed", "error", <<>>)
        tables_status == CASE tables = "exists" -> "healthy"
                           [] tables = "missing" -> "missing_tables"
                           [] tables = "error" -> "unhealthy"
        F2 == IF tables # "error" THEN F1
              ELSE log_with_context(F1, E, "Table check failed", "error", <<>>)
        status == overall_status(db_status, tables_status)
    IN  health_check_completes(F2, E, status,
            [overall_status |-> status, db_status |-> db_status,
             tables_status |-> tables_status, db_latency |-> "db_latency"],
            [database |-> [status |-> db_status], tables |-> tables_status])

\* document-api's health_check() after `await client.get(...)`: the overall
\* status is healthy or degraded.
api_health_check(F, E, fs_status, data_store) ==
    LET data_store_status == IF data_store = "200" THEN "healthy" ELSE "unhealthy"
        status == IF fs_status = "healthy" /\ data_store_status = "healthy"
                  THEN "healthy" ELSE "degraded"
    IN  health_check_completes(F, E, status,
            [overall_status |-> status, fs_status |-> fs_status,
             data_store_status |-> data_store_status],
            [file_system |-> fs_status, data_store |-> data_store_status])

\* GET /health at data-store: the handler has no await.
call_ds_health_check(r, database, tables) ==
    /\ pc[r] = "idle"
    /\ service = "data-store"
    /\ LET H == ds_health_check(frame[r], Direct(r), database, tables)
       IN  /\ frame' = [frame EXCEPT ![r] = H.F]
           /\ health' = [health EXCEPT ![r] =
                  [@ EXCEPT !.database = database, !.tables = tables, !.body = H.body]]
    /\ pc' = [pc EXCEPT ![r] = "done"]
    /\ UNCHANGED <<documentmetadata, http, caller, calls, asgi, service, route, ctx,
                   uuidCount, scope, local, result, response>>

\* GET /health at document-api up to the call to data-store; an exception of
\* the file-system check or of get_settings() goes to the outer except clause.
call_api_health_check(r, file_system) ==
    /\ pc[r] = "idle"
    /\ service = "document-api"
    /\ IF file_system = "error"
       THEN LET H == health_check_except(frame[r], Direct(r),
                                         Error("PermissionError", "Permission denied"))
            IN  /\ frame' = [frame EXCEPT ![r] = H.F]
                /\ health' = [health EXCEPT ![r] =
                       [@ EXCEPT !.file_system = file_system, !.body = H.body]]
                /\ pc' = [pc EXCEPT ![r] = "done"]
       ELSE /\ health' = [health EXCEPT ![r].file_system = file_system]
            /\ pc' = [pc EXCEPT ![r] = "health_get"]
            /\ UNCHANGED frame
    /\ UNCHANGED <<documentmetadata, http, caller, calls, asgi, service, route, ctx,
                   uuidCount, scope, local, result, response>>

\* document-api's health_check resumes with the outcome of the call.
api_health_check_resumes(r, data_store) ==
    /\ pc[r] = "health_get"
    /\ LET fs_status == IF health[r].file_system = "dir" THEN "healthy" ELSE "unhealthy"
           H == api_health_check(frame[r], Direct(r), fs_status, data_store)
       IN  /\ frame' = [frame EXCEPT ![r] = H.F]
           /\ health' = [health EXCEPT ![r] = [@ EXCEPT !.data_store = data_store,
                                                        !.body = H.body]]
    /\ pc' = [pc EXCEPT ![r] = "done"]
    /\ UNCHANGED <<documentmetadata, http, caller, calls, asgi, service, route, ctx,
                   uuidCount, scope, local, result, response>>

NextHealth ==
    \E r \in Req :
        \/ \E v \in CallerIds : call_set_correlation_id(r, v)
        \/ \E database \in DatabaseChecks, tables \in TableChecks :
               call_ds_health_check(r, database, tables)
        \/ \E file_system \in FileSystemChecks : call_api_health_check(r, file_system)
        \/ \E data_store \in DataStoreChecks : api_health_check_resumes(r, data_store)

SpecHealth == Init /\ [][NextHealth]_vars

-----------------------------------------------------------------------------
(* Uploads at document-api, with cancellation: the task of a request can be
   cancelled while upload_document is suspended in one of its awaits. *)

\* asyncio.CancelledError, a BaseException: no `except Exception` catches it.
CancelledError == Error("CancelledError", "")

\* upload_document is cancelled in the await it is suspended in (`at`): the
\* with-block around the await ends its span, no except clause runs, then the
\* finally clause and the end of the outer with-block.
upload_document_cancelled(F, E, loc, at, unlink) ==
    LET open == CASE at = "upload_read" -> loc.file_span
                  [] at = "upload_sleep" -> loc.llm_span
                  [] at = "upload_post" -> loc.store_span
        Y == upload_document_finally(end(F, open), E, loc.span, loc, CancelledError, unlink)
    IN  [F |-> Y.F, raised |-> Y.raised, on_disk |-> Y.on_disk]

\* The task of request r is cancelled while its handler is suspended; the
\* request ends without a response.
Handle_upload_document_cancelled(r) ==
    /\ pc[r] \in {"upload_read", "upload_sleep", "upload_post"}
    /\ \E unlink \in DbOutcomes :
          LET H == upload_document_cancelled(frame[r], Inner(r), local[r], pc[r], unlink)
          IN  /\ frame' = [frame EXCEPT ![r] = H.F]
              /\ local' = [local EXCEPT ![r] = [@ EXCEPT !.on_disk = H.on_disk]]
              /\ result' = [result EXCEPT ![r] = [status |-> 0, raised |-> H.raised]]
    /\ pc' = [pc EXCEPT ![r] = "cancelled"]
    /\ UNCHANGED <<health, documentmetadata, http, caller, calls, asgi, service, route,
                   ctx, uuidCount, scope, response>>

InitUpload == Init /\ service = "document-api"

NextUpload ==
    \E r \in Req :
        \/ add_process_time_header_call(r, "api_upload")
        \/ ObservabilityMiddleware_call(r)
        \/ Handle_upload_document_enter(r)
        \/ Handle_upload_document_file(r)
        \/ Handle_upload_document_summarised(r)
        \/ Handle_upload_document_stored(r)
        \/ Handle_upload_document_cancelled(r)
        \/ add_process_time_header_return(r)
        \/ add_process_time_header_raise(r)

SpecUpload == InitUpload /\ [][NextUpload]_vars

-----------------------------------------------------------------------------
(* create_client_document_metadata called at data-store with a database whose
   session calls can fail one by one. *)

\* What the tracked block's session calls do: all succeed, or the first to
\* raise is DocumentMetadata(...)/db.add, db.commit, or db.refresh after the
\* commit has taken effect.
InsertOutcomes == {"ok", "add_error", "commit_error", "refresh_error"}

\* The transaction of the tracked block was committed.
Committed(insert) == insert \in {"ok", "refresh_error"}

\* The client ids the handler receives as its path parameter.
CreateClients == { <<"a">>, <<"a", " ", "b">> }

\* POST /clients/{client_id}/documents: the handler has no await; it runs from
\* entry to its return or raise, and the application answers.
call_create_client_document_metadata(r, client_id, filename, insert, rollback) ==
    /\ pc[r] = "idle"
    /\ service = "data-store"
    /\ \A q \in Req : q < r => pc[q] # "idle"
    /\ LET H == create_client_document_metadata(frame[r], Direct(r),
                    IF insert = "ok" THEN "ok" ELSE "error", rollback)
           db_document == [id |-> Len(documentmetadata) + 1, client_id |-> client_id,
                           filename |-> filename]
           res == [status |-> 200, raised |-> H.raised]
           status == IF H.raised.type \in {"None", "HTTPException"} THEN StatusOf(res) ELSE 500
       IN  /\ frame' = [frame EXCEPT ![r] = H.F]
           /\ local' = [local EXCEPT ![r] = [@ EXCEPT !.body = H.body, !.seen = H.seen]]
           /\ result' = [result EXCEPT ![r] = res]
           /\ response' = [response EXCEPT ![r] =
                  [sent |-> TRUE, status |-> status, headers |-> BaseHeaders]]
           /\ documentmetadata' = IF Committed(insert)
                                  THEN Append(documentmetadata, db_document)
                                  ELSE documentmetadata
           /\ http' = [http EXCEPT ![r] =
                  [@ EXCEPT !.op = "create", !.client_id = client_id, !.filename = filename,
                            !.reply = [status |-> status,
                                       row |-> IF insert = "ok" THEN db_document ELSE NoRow]]]
    /\ pc' = [pc EXCEPT ![r] = "done"]
    /\ UNCHANGED <<health, caller, calls, asgi, service, route, ctx, uuidCount, scope>>

InitCreate == Init /\ service = "data-store"

NextCreate ==
    \E r \in Req :
        \/ \E v \in CallerIds : call_set_correlation_id(r, v)
        \/ \E client_id \in CreateClients, filename \in Filenames,
              insert \in InsertOutcomes, rollback \in DbOutcomes :
               call_create_client_document_metadata(r, client_id, filename, insert, rollback)

SpecCreate == InitCreate /\ [][NextCreate]_vars

-----------------------------------------------------------------------------
(* Properties *)

\* ObservabilityMiddleware.__call__ has installed the id of request r.
Started(r) == pc[r] \notin {"idle", "call_next"}

\* The handler of request r is running or suspended in an await.
InHandler(r) == pc[r] \in {"handler", "upload_read", "upload_sleep", "upload_post", "retrieve_get"}

\* The handler of request r has returned or raised.
Finished(r) == pc[r] \in {"responded", "raised", "done"}

\* The handler chain of request r ended in a response (not in an unhandled error).
Responded(r) == result[r].raised.type \in {"None", "HTTPException"}

\* Request r ran a track_db_operation scope to its exit.
Tracked(r) == Finished(r) /\ route[r] \in {"ds_create", "ds_get"}

\* The positions in the telemetry of request r of the samples of an instrument.
Samples(r, name) ==
    {i \in DOMAIN frame[r].ev : frame[r].ev[i].kind = "metric" /\ frame[r].ev[i].name = name}

\* The positions of the log calls of request r with message m.
Logs(r, m) ==
    {i \in DOMAIN frame[r].ev : frame[r].ev[i].kind = "log" /\ frame[r].ev[i].msg = m}

\* The spans track_db_operation opened for request r.
DbSpans(r) ==
    {i \in DOMAIN frame[r].sp : frame[r].sp[i].attrs.operation = "database_operation"}

\* C1: with any number of requests in flight and any interleaving at their
\* suspension points, the middleware generates exactly one correlation id per
\* request, the ids of distinct requests differ, and every read of the id by
\* code of request r's handler (create_span, log_with_context,
\* track_db_operation) yields r's id.
C1_NoCrossRequestLeak ==
    /\ uuidCount = Cardinality({r \in Req : Started(r)})
    /\ \A r, q \in Req : (r # q /\ Started(r) /\ Started(q)) => scope[r] # scope[q]
    /\ \A r \in Req : Started(r) =>
          /\ scope[r] # EmptyId
          /\ InHandler(r) => get_correlation_id(ctx, <<r, "inner">>) = scope[r]
          /\ \A i \in DOMAIN frame[r].sp : frame[r].sp[i].attrs.correlation_id = scope[r]
          /\ \A i \in DOMAIN frame[r].ev :
                /\ frame[r].ev[i].kind = "log" =>
                      frame[r].ev[i].extra.correlation_id = scope[r]
                /\ i \in Samples(r, "database_operations_total")
                            \cup Samples(r, "database_operation_duration_seconds") =>
                      frame[r].ev[i].labels.correlation_id = scope[r]

\* C1 witness: two requests are in flight at once, each with spans opened by
\* its handler.
C1_Witness ==
    \E r, q \in Req :
        /\ r # q
        /\ Started(r) /\ pc[r] # "done" /\ Len(frame[r].sp) > 0
        /\ Started(q) /\ pc[q] # "done" /\ Len(frame[q].sp) > 0

\* C2 (as claimed): the http_requests_total sample and the
\* http_request_duration_seconds sample of a request carry in correlation_id
\* the id ObservabilityMiddleware generated for that request.
C2_RequestSamplesCarryRequestId ==
    \A r \in Req : pc[r] = "done" =>
        \A i \in Samples(r, "http_requests_total")
                    \cup Samples(r, "http_request_duration_seconds") :
            frame[r].ev[i].labels.correlation_id = scope[r]

\* C3: a track_db_operation scope whose body does not raise emits exactly one
\* database_operations_total sample, with success true, exactly one
\* database_operation_duration_seconds sample, sets success true on its span
\* and closes the span.
C3_NormalScope ==
    \A r \in Req : (Tracked(r) /\ local[r].body = NoExc) =>
        /\ Cardinality(Samples(r, "database_operations_total")) = 1
        /\ \A i \in Samples(r, "database_operations_total") :
              frame[r].ev[i].labels.success = TRUE
        /\ Cardinality(Samples(r, "database_operation_duration_seconds")) = 1
        /\ Cardinality(DbSpans(r)) = 1
        /\ \A i \in DbSpans(r) :
              /\ "success" \in DOMAIN frame[r].sp[i].attrs
              /\ frame[r].sp[i].attrs.success = TRUE
              /\ frame[r].sp[i].ends = 1

\* C3 witness: a tracked scope has exited and its body did not raise.
C3_Witness == \E r \in Req : Tracked(r) /\ local[r].body = NoExc

\* C4: a track_db_operation scope whose body raises E emits exactly one
\* database_operations_total sample, with success false, sets the error message
\* and the error type on the span, produces one error-level log, and its caller
\* sees exactly E.
C4_FailedScope ==
    \A r \in Req : (Tracked(r) /\ local[r].body # NoExc) =>
        /\ Cardinality(Samples(r, "database_operations_total")) = 1
        /\ \A i \in Samples(r, "database_operations_total") :
              frame[r].ev[i].labels.success = FALSE
        /\ \A i \in DbSpans(r) :
              /\ {"error", "error_type"} \subseteq DOMAIN frame[r].sp[i].attrs
              /\ frame[r].sp[i].attrs.error = local[r].body.msg
              /\ frame[r].sp[i].attrs.error_type = local[r].body.type
        /\ Cardinality({i \in Logs(r, "Database operation failed") :
                            frame[r].ev[i].level = "error" /\ frame[r].ev[i].emitted}) = 1
        /\ local[r].seen = local[r].body

\* C4 witness: a tracked scope has exited on the HTTPException of a lookup that
\* found nothing.
C4_Witness == \E r \in Req : Tracked(r) /\ local[r].body.type = "HTTPException"

\* C5 (as claimed): every tracked operation, succeeding or failing, produces
\* exactly one counter sample, one duration sample and exactly one emitted log
\* record, the logger being at level INFO.
C5_OnePairOneLogRecord ==
    \A r \in Req : Tracked(r) =>
        /\ Cardinality(Samples(r, "database_operations_total")) = 1
        /\ Cardinality(Samples(r, "database_operation_duration_seconds")) = 1
        /\ Cardinality({i \in Logs(r, "Database operation failed")
                                \cup Logs(r, "Database operation completed") :
                            frame[r].ev[i].emitted}) = 1

\* C6: when a handler has returned or raised, every span it opened with
\* create_span or track_db_operation was closed exactly once, on every path.
C6_SpansClosedOnce ==
    \A r \in Req : Finished(r) =>
        \A i \in DOMAIN frame[r].sp : frame[r].sp[i].ends = 1

\* C6 witness: an upload that opened its four spans has ended in an error.
C6_Witness ==
    \E r \in Req : Finished(r) /\ Len(frame[r].sp) = 4 /\ result[r].raised # NoExc

\* C7 (as claimed): for a request whose handler chain raises an unhandled error
\* out of call_next, the completion step still runs exactly once: one request
\* counter sample and one duration sample.
C7_CompletionRunsOnError ==
    \A r \in Req : (pc[r] = "done" /\ ~Responded(r)) =>
        /\ Cardinality(Samples(r, "http_requests_total")) = 1
        /\ Cardinality(Samples(r, "http_request_duration_seconds")) = 1

\* C8: for a request whose handler chain returns a response, of any status,
\* exactly one http_requests_total sample and exactly one
\* http_request_duration_seconds sample are emitted.
C8_OneRequestSamplePair ==
    \A r \in Req : (pc[r] = "done" /\ Responded(r)) =>
        /\ Cardinality(Samples(r, "http_requests_total")) = 1
        /\ Cardinality(Samples(r, "http_request_duration_seconds")) = 1

\* C8 witness: a request answered with an error status is complete.
C8_Witness ==
    \E r \in Req : pc[r] = "done" /\ Responded(r) /\ StatusOf(result[r]) = 404

\* C9: log_request_metrics emits one http_errors_total sample if and only if the
\* status is at least 400, labelled 4xx exactly for 400..499 and 5xx exactly
\* from 500 on; below 400 it emits none.
C9_ErrorCounter ==
    \A r \in Req : Samples(r, "http_requests_total") # {} =>
        LET status == StatusOf(result[r])
            errs == Samples(r, "http_errors_total")
        IN  /\ Cardinality(errs) = IF status >= 400 THEN 1 ELSE 0
            /\ \A i \in errs :
                  /\ frame[r].ev[i].labels.error_category = "4xx"
                        <=> (400 <= status /\ status < 500)
                  /\ frame[r].ev[i].labels.error_category = "5xx" <=> status >= 500
                  /\ frame[r].ev[i].labels.status_code = str(status)

\* C9 witness: the metrics of a response with status 500, the lowest 5xx, and of
\* one with status 499 were recorded.
C9_Witness ==
    \E r, q \in Req :
        /\ Samples(r, "http_errors_total") # {} /\ StatusOf(result[r]) = 500
        /\ Samples(q, "http_errors_total") # {} /\ StatusOf(result[q]) = 499

\* C10 (as claimed): every response sent to a client carries X-Process-Time,
\* the 500 for an unhandled error included.
C10_EveryResponseHasProcessTime ==
    \A r \in Req : response[r].sent => "X-Process-Time" \in response[r].headers

\* C11 (as claimed): log_with_context never raises to its caller, whatever the
\* message, the level value and the caller's keyword fields, a field named like
\* a LogRecord attribute (filename) included.
C11_LogNeverRaises ==
    \A r \in Req : calls[r].raised = NoExc

\* C12 (as claimed): a failure raised by a metric instrument or by the logger
\* during DBOperationTracker.__exit__ or during log_request_metrics never
\* reaches the caller: what leaves the tracked block is the business error of
\* its body (or nothing), the tracked span is closed, and the client receives
\* the status the handler produced.
C12_InstrumentFailureSwallowed ==
    \A r \in Req :
        /\ pc[r] = "responded" =>
              /\ local[r].seen = local[r].body
              /\ \A i \in DbSpans(r) : frame[r].sp[i].ends = 1
        /\ response[r].sent => response[r].status = result[r].status

\* C13 (as claimed): every log record emitted by log_with_context carries under
\* correlation_id the correlation id active at the time of the call (the empty
\* string when none is installed), whatever keyword fields the caller passes,
\* fields named correlation_id or service included.
C13_LogCarriesActiveId ==
    \A r \in Req : \A i \in DOMAIN frame[r].ev :
        (frame[r].ev[i].kind = "log" /\ frame[r].ev[i].emitted) =>
            frame[r].ev[i].extra.correlation_id = get_correlation_id(ctx, <<r, "outer">>)

\* C14 (as claimed): when a client request to document-api causes a call to
\* data-store, everything data-store emits while serving that call (logs,
\* database operation samples, spans) carries the correlation id document-api
\* generated for the client request.
C14_IdCrossesServiceBoundary ==
    \A r \in Req : (caller[r] # 0 /\ Started(r)) =>
        /\ scope[r] = scope[caller[r]]
        /\ \A i \in DOMAIN frame[r].sp :
              frame[r].sp[i].attrs.correlation_id = scope[caller[r]]
        /\ \A i \in DOMAIN frame[r].ev :
              /\ frame[r].ev[i].kind = "log" =>
                    frame[r].ev[i].extra.correlation_id = scope[caller[r]]
              /\ i \in Samples(r, "database_operations_total")
                          \cup Samples(r, "database_operation_duration_seconds") =>
                    frame[r].ev[i].labels.correlation_id = scope[caller[r]]

\* C15: set_correlation_id(v) followed by get_correlation_id() in the same task,
\* with no set in between, returns exactly v, for every v (the empty string
\* included), whatever other tasks set and read in the meantime.
C15_SetGetRoundTrip ==
    \A r \in Req : (calls[r].set # <<>> /\ calls[r].got # <<>>) => calls[r].got = calls[r].set

\* C15 witness: a task has read back the id it installed while another task
\* had installed a different value and read it back.
C15_Witness ==
    \E r, q \in Req :
        /\ calls[r].set = <<uuid4(1)>> /\ calls[r].got # <<>>
        /\ calls[q].set = <<EmptyId>> /\ calls[q].got # <<>>

\* C16: where no id was ever installed, get_correlation_id() returns the empty
\* string and does not raise, and create_span, log_with_context and
\* track_db_operation complete and record the empty string as correlation id
\* (span attribute, log field, labels of the operation's samples).
C16_NoIdInstalled ==
    \A r \in Req : calls[r].set = <<>> =>
        /\ calls[r].got \in {<<>>, <<EmptyId>>}
        /\ calls[r].raised = NoExc
        /\ pc[r] = "done" => Len(frame[r].sp) + Len(frame[r].ev) > 0
        /\ \A i \in DOMAIN frame[r].sp :
              /\ frame[r].sp[i].attrs.correlation_id = EmptyId
              /\ frame[r].sp[i].ends = 1
        /\ \A i \in DOMAIN frame[r].ev :
              /\ frame[r].ev[i].kind = "log" =>
                    frame[r].ev[i].extra.correlation_id = EmptyId
              /\ frame[r].ev[i].kind = "metric" =>
                    frame[r].ev[i].labels.correlation_id = EmptyId

\* C16 witness: with no id installed, one task has read the id and run a
\* tracked operation and another has logged.
C16_Witness ==
    \E r, q \in Req :
        /\ calls[r].set = <<>> /\ calls[r].got # <<>> /\ DbSpans(r) # {}
              /\ Samples(r, "database_operations_total") # {}
        /\ calls[q].set = <<>> /\ Logs(q, "message") # {}

\* C17 (as claimed): once ObservabilityMiddleware.__call__ has returned for a
\* request, the request's id is no longer the active value in the execution
\* context that served it: get_correlation_id() there does not return it.
C17_IdDiscardedAfterRequest ==
    \A r \in Req : pc[r] = "done" => get_correlation_id(ctx, <<r, "inner">>) # scope[r]

\* C18 (as claimed): for every http scope, one whose client entry is missing or
\* None and one without a user-agent header included, every message the
\* application sends reaches the original send exactly once, unchanged and in
\* order, and custom_send raises nothing.
C18_MessagesForwardedUnchanged ==
    \A r \in Req : asgi[r].type = "http" =>
        /\ asgi[r].sent = asgi[r].app
        /\ asgi[r].raised = NoExc

\* C19 (as claimed): for every http request the "Request started" log is
\* emitted exactly once, with the id generated for the request, its method and
\* its path, the client address and the user-agent.
C19_RequestStartedOnce ==
    \A r \in Req : pc[r] = "done" =>
        /\ Cardinality(Logs(r, "Request started")) = 1
        /\ \A i \in Logs(r, "Request started") :
              /\ frame[r].ev[i].emitted
              /\ frame[r].ev[i].extra.correlation_id = scope[r]
              /\ frame[r].ev[i].extra.method = MethodOf(route[r])
              /\ frame[r].ev[i].extra.path = PathOf(route[r])
              /\ {"client_ip", "user_agent"} \subseteq DOMAIN frame[r].ev[i].extra

\* C20: for a scope that is not http the middleware generates no id, leaves the
\* active id and the scope as they were, emits no log, and gives the
\* application the original send, which so receives every message.
C20_NonHttpPassThrough ==
    /\ uuidCount = Cardinality({r \in Req : asgi[r].type = "http"})
    /\ \A r \in Req : asgi[r].type = "websocket" =>
          /\ scope[r] = EmptyId
          /\ get_correlation_id(ctx, <<r, "inner">>) = EmptyId
          /\ frame[r] = EmptyFrame
          /\ asgi[r].given = "send"
          /\ asgi[r].sent = asgi[r].app

\* C20 witness: a websocket call has sent its messages and returned, an http
\* call having been made before it.
C20_Witness ==
    \E r, q \in Req :
        /\ asgi[r].type = "websocket" /\ pc[r] = "done" /\ Len(asgi[r].app) = MaxMsgs
        /\ asgi[q].type = "http" /\ q < r

\* C21: log_with_context calls the logger's method named by level for debug,
\* info, warning, error and critical, and the info method for every other
\* level value, and does not fail on such a value.
C21_LevelDispatch ==
    \A r \in Req : \A i \in Logs(r, "message") :
        /\ frame[r].ev[i].level =
              CASE calls[r].level = "debug" -> "debug"
                [] calls[r].level = "info" -> "info"
                [] calls[r].level = "warning" -> "warning"
                [] calls[r].level = "error" -> "error"
                [] calls[r].level = "critical" -> "critical"
                [] OTHER -> "info"
        /\ calls[r].raised = NoExc
        /\ frame[r].ev[i].emitted <=> calls[r].level # "debug"

\* C21 witness: one task has logged at a level the function does not name and
\* another at critical.
C21_Witness ==
    \E r, q \in Req :
        /\ calls[r].level = "verbose" /\ Logs(r, "message") # {}
        /\ calls[q].level = "critical" /\ Logs(q, "message") # {}

\* The lookup of request r, a GET at data-store, found no document.
LookupFailed(r) ==
    /\ route[r] = "ds_get"
    /\ local[r].body = HTTPException(404, "Document not found")

\* C22: for a GET at data-store of a document that does not exist, the tracked
\* select scope emits one database_operations_total sample with success false
\* and one error-level log with the request's id, the client receives 404 (the
\* error raised in the scope, unconverted), and the request metrics register
\* that status with one http_errors_total sample.
C22_FailingLookup ==
    \A r \in Req : (pc[r] = "done" /\ LookupFailed(r)) =>
        /\ Cardinality(Samples(r, "database_operations_total")) = 1
        /\ \A i \in Samples(r, "database_operations_total") :
              frame[r].ev[i].labels.success = FALSE
        /\ Cardinality(Logs(r, "Database operation failed")) = 1
        /\ \A i \in Logs(r, "Database operation failed") :
              /\ frame[r].ev[i].level = "error"
              /\ frame[r].ev[i].emitted
              /\ frame[r].ev[i].extra.correlation_id = scope[r]
        /\ local[r].seen = local[r].body
        /\ result[r].raised = local[r].body
        /\ response[r].status = 404
        /\ \A i \in Samples(r, "http_requests_total") :
              frame[r].ev[i].labels.status_code = str(404)
        /\ Cardinality(Samples(r, "http_errors_total")) = 1
        /\ \A i \in Samples(r, "http_errors_total") :
              /\ frame[r].ev[i].labels.status_code = str(404)
              /\ frame[r].ev[i].labels.error_category = "4xx"

\* C22 witness: the response to a lookup that found nothing has been sent.
C22_Witness == \E r \in Req : pc[r] = "done" /\ LookupFailed(r) /\ response[r].sent

\* C23: when data-store finds no document for the GET that document-api
\* request q makes, data-store answers 404 and the client of document-api
\* receives 404, not 500 or 503.
C23_NotFoundRelayed ==
    \A r \in Req : (caller[r] # 0 /\ LookupFailed(r) /\ response[r].sent) =>
        /\ response[r].status = 404
        /\ response[caller[r]].sent => response[caller[r]].status = 404

\* C23 witness: document-api has answered a retrieval whose lookup at
\* data-store found nothing.
C23_Witness ==
    \E r \in Req : caller[r] # 0 /\ LookupFailed(r) /\ response[caller[r]].sent

\* C24: once an upload for client c with filename f has returned 200 with
\* document id d, a retrieval of (c, d) returns 200 with a record whose
\* client_id is c and whose filename is f.
C24_RoundTrip ==
    \A u, g \in Req :
        ( /\ http[u].op = "upload" /\ http[g].op = "retrieve"
          /\ u \in http[g].after /\ pc[g] = "done"
          /\ http[u].status = 200
          /\ http[g].client_id = http[u].client_id
          /\ http[g].document_id = http[u].body.document_id )
        => /\ http[g].status = 200
           /\ http[g].body.client_id = http[u].client_id
           /\ http[g].body.filename = http[u].filename

\* The operation a data-store handler hands to track_db_operation.
TrackedOperation(r) == IF route[r] = "ds_create" THEN "insert" ELSE "select"

\* C26: the span track_db_operation(operation, table) opens is named
\* "{operation}_{table}", e.g. insert_documentmetadata.
C26_SpanNamedOperationTable ==
    \A r \in Req : \A i \in DbSpans(r) :
        frame[r].sp[i].name = TrackedOperation(r) \o "_" \o frame[r].sp[i].attrs.table

\* C27: the duration sample of a request carries the same labels as the
\* counter sample of that request: method, path, status code, correlation id
\* and the service identity.
C27_DurationLabelsAsCounter ==
    \A r \in Req :
        \A i \in Samples(r, "http_requests_total") :
            \A j \in Samples(r, "http_request_duration_seconds") :
                frame[r].ev[j].labels = frame[r].ev[i].labels

\* C30: on no path of a request handler or of DBOperationTracker.__exit__ is
\* set_attribute called on a span that has already been closed.
C30_AttributesSetWhileOpen ==
    \A r \in Req : \A i \in DOMAIN frame[r].sp : ~frame[r].sp[i].late

\* C30 witness: a tracked block failed, __exit__ recorded the error on the
\* span and then closed it, and the handler's own span is closed as well.
C30_Witness ==
    \E r \in Req :
        /\ Tracked(r)
        /\ \A i \in DOMAIN frame[r].sp : frame[r].sp[i].ends = 1
        /\ \E i \in DbSpans(r) : "error_type" \in DOMAIN frame[r].sp[i].attrs
        /\ \E i \in DOMAIN frame[r].sp :
               /\ i \notin DbSpans(r)
               /\ "error" \in DOMAIN frame[r].sp[i].attrs

\* C25: the counter sample, the duration sample, the emitted log record and the
\* span's correlation_id attribute of one track_db_operation scope all carry
\* the id that was active when the scope was created, whatever ids were
\* installed while the scope was open.
C25_ScopeTelemetryOneId ==
    \A r \in Req :
        (pc[r] = "done" /\ calls[r].trk # <<>>)
        => LET created == calls[r].trk[1].correlation_id
           IN  /\ \A i \in DOMAIN frame[r].ev :
                      /\ frame[r].ev[i].kind = "metric"
                         => frame[r].ev[i].labels.correlation_id = created
                      /\ (frame[r].ev[i].kind = "log" /\ frame[r].ev[i].emitted)
                         => frame[r].ev[i].extra.correlation_id = created
               /\ \A i \in DbSpans(r) : frame[r].sp[i].attrs.correlation_id = created

\* C28: every span create_span returns has the correlation id active at its
\* creation under correlation_id, the operation type and the fixed service
\* identity, whatever attributes the caller passed.
C28_SpanIdentityAttributes ==
    \A r \in Req :
        pc[r] \in {"in_span", "closed"}
        => \A i \in DOMAIN frame[r].sp :
               /\ frame[r].sp[i].attrs.correlation_id = get_correlation_id(ctx, <<r, "outer">>)
               /\ frame[r].sp[i].attrs.operation = "operation"
               /\ frame[r].sp[i].attrs.service = service

C31_HealthCheckReports ==
    \A r \in Req :
        health[r].body.status # "none"
        => /\ Cardinality(Samples(r, "health_check_total")) = 1
           /\ Cardinality(Samples(r, "health_check_duration_seconds")) = 1
           /\ \A i \in Samples(r, "health_check_total") :
                  frame[r].ev[i].labels.status = health[r].body.status
           /\ health[r].body.status \in {"healthy", "degraded", "unhealthy"}
           /\ service = "data-store"
              => /\ health[r].body.status = "unhealthy" <=> health[r].database = "error"
                 /\ health[r].body.status = "healthy"
                    <=> (health[r].database = "ok" /\ health[r].tables = "exists")
                 /\ health[r].body.status = "degraded"
                    <=> (health[r].database = "ok" /\ health[r].tables # "exists")

\* C31 witness: data-store has answered a health check whose database check
\* failed, and another whose table is missing.
C31_Witness ==
    \E r, q \in Req :
        /\ service = "data-store"
        /\ health[r].database = "error" /\ health[r].body.status = "unhealthy"
        /\ health[q].database = "ok" /\ health[q].tables = "missing"
        /\ health[q].body.status = "degraded"

\* C32: get_document_metadata returns a stored document only for its own
\* (client id, document id) pair: a lookup with the id of another client's
\* document answers 404 and returns no record.
C32_TenantIsolation ==
    \A g \in Req :
        (http[g].op = "retrieve" /\ pc[g] \in {"got", "done"})
        => LET client_id == unquote(http[g].url)
           IN  /\ http[g].reply.status = 200
                  => /\ http[g].reply.row.client_id = client_id
                     /\ http[g].reply.row.id = http[g].document_id
               /\ \A i \in 1..Len(documentmetadata) :
                      ( /\ documentmetadata[i].id = http[g].document_id
                        /\ documentmetadata[i].client_id # client_id )
                      => /\ http[g].reply.status = 404
                         /\ http[g].reply.row = NoRow

\* C32 witness: a document is stored for one client, and a lookup of its id
\* under another client id, made after the upload returned, was answered 404.
C32_Witness ==
    \E u, g \in Req :
        /\ http[u].op = "upload" /\ http[g].op = "retrieve"
        /\ u \in http[g].after /\ pc[g] \in {"got", "done"}
        /\ http[u].status = 200
        /\ http[g].document_id = http[u].body.document_id
        /\ unquote(http[g].url) # http[u].body.metadata.client_id
        /\ http[g].reply.status = 404

\* The positions in the telemetry of request r of its request-level samples.
RequestSamples(r) ==
    Samples(r, "http_requests_total") \cup Samples(r, "http_request_duration_seconds")

\* C33: for a request that returns a response, the "Request started" log,
\* every handler-level log and every tracked-operation sample come before the
\* request's http_requests_total and http_request_duration_seconds samples.
C33_RequestMetricsLast ==
    \A r \in Req :
        \A j \in RequestSamples(r) :
            \A i \in DOMAIN frame[r].ev :
                ( \/ frame[r].ev[i].kind = "log"
                  \/ i \in Samples(r, "database_operations_total")
                  \/ i \in Samples(r, "database_operation_duration_seconds") )
                => i < j

\* C33 witness: a lookup at data-store that found nothing has been answered:
\* its tracked samples, the handler's log, the "Request started" log and the
\* request samples have all been emitted.
C33_Witness ==
    \E r \in Req :
        /\ pc[r] = "done" /\ route[r] = "ds_get"
        /\ Samples(r, "http_requests_total") # {}
        /\ Samples(r, "http_request_duration_seconds") # {}
        /\ Samples(r, "database_operation_duration_seconds") # {}
        /\ Logs(r, "Request started") # {}
        /\ Logs(r, "Document not found") # {}

\* upload_document of request r has finished: it returned, raised or was cancelled.
UploadFinished(r) ==
    route[r] = "api_upload" /\ pc[r] \in {"responded", "raised", "done", "cancelled"}

\* file_path.unlink() raised in the finally clause of request r.
UnlinkFailed(r) == result[r].raised = Error("OSError", "unlink failed")

RequestErrorCaught(r) == Logs(r, "Error communicating with data-store") # {}

\* File processing, summarization and the POST (answered 200) of request r succeeded.
UploadStepsSucceeded(r) ==
    /\ Logs(r, "File processed successfully") # {}
    /\ Logs(r, "Document summarization completed") # {}
    /\ Logs(r, "Metadata stored successfully") # {}

\* C35: upload_document answers 200 only when file processing, summarization
\* and the POST to data-store all succeeded, 503 exactly when the call to
\* data-store raised a request error, and 500 for every other failure.
C35_UploadStatusMapping ==
    \A r \in Req :
        (route[r] = "api_upload" /\ pc[r] = "done")
        => /\ response[r].status = 200 => UploadStepsSucceeded(r)
           /\ response[r].status = 503 <=> RequestErrorCaught(r)
           /\ (~UploadStepsSucceeded(r) /\ ~RequestErrorCaught(r))
              => response[r].status = 500

\* C36: when the tracked insert of create_client_document_metadata raises, the
\* session is rolled back and the handler answers 500, the stored documents
\* are the same as before the request, and the tracked scope has recorded
\* success = false before the handler's except clause ran.
C36_FailedCreateChangesNothing ==
    [][ \A r \in Req :
          (pc[r] = "idle" /\ pc'[r] = "done" /\ local'[r].body # NoExc)
          => /\ documentmetadata' = documentmetadata
             /\ result'[r].raised = HTTPException(500, "Failed to store document metadata")
             /\ response'[r].status = 500
             /\ \E i, j \in DOMAIN frame'[r].ev :
                   /\ i < j
                   /\ frame'[r].ev[i].kind = "metric"
                   /\ frame'[r].ev[i].name = "database_operations_total"
                   /\ frame'[r].ev[i].labels.success = FALSE
                   /\ frame'[r].ev[j].kind = "log"
                   /\ frame'[r].ev[j].msg = "Error storing document metadata" ]_vars


=============================================================================
